---------------------------- MODULE Spec2Model ----------------------------
(***************************************************************************)
(* A model of the cloud sync manager (class SupabaseManager,               *)
(* src/unnamed/part_000): the leader election among the tabs that share    *)
(* chrome.storage.local, the retry queue of failed remote writes, the sync *)
(* operations between the local store and the remote store, the realtime   *)
(* handlers and subscriptions, and the session (sign-in, sign-out).         *)
(*                                                                         *)
(* Several specifications share the variables:                             *)
(*   LeaderSpec        the tabs' election steps, heartbeat ticks, release  *)
(*                     and verification, interleaved, with a clock;        *)
(*   LeaderFairSpec    LeaderSpec with the ticks and elections progressing;*)
(*   QueueSpec         one tab's retry queue: addToRetryQueue calls        *)
(*                     interleaved with the steps of a drain;              *)
(*   SyncSpec          one tab's sync operations on the two stores;        *)
(*   RealtimeSpec      one tab's realtime change handlers and the          *)
(*                     debounced UI refresh;                               *)
(*   OfflineSpec       one tab's sign-in sync, offline-work upload and     *)
(*                     sign-out, with the sync metadata;                   *)
(*   SubscriptionSpec  one tab's realtime subscriptions, their statuses    *)
(*                     and reconnect timers, across sign-in and sign-out;  *)
(*   AutoSyncSpec      one tab's periodic sync with its drain of the retry *)
(*                     queue, the offline-work upload and the live sync,   *)
(*                     signed in or not, leading or not;                   *)
(*   ForceSyncSpec     AutoSyncSpec's drain under forceSync's race with    *)
(*                     its timeout timer, with a clock that progresses;    *)
(*   DownloadSpec      the local writes of the downloads: initial sync,    *)
(*                     smart merge and the realtime handlers;              *)
(*   SoleTabFairSpec   one tab alone: its heartbeat and elections next to  *)
(*                     its sign-outs and sign-ins, all progressing;        *)
(*   SessionSyncSpec   one tab's periodic sync next to its sign-outs and   *)
(*                     sign-ins.                                           *)
(* Each specification leaves the other parts' variables unchanged.         *)
(***************************************************************************)
EXTENDS Integers, Sequences, FiniteSets, TLC

(***************************************************************************)
(* Program constants (constructor, part_000 lines 27-47).                  *)
(***************************************************************************)
LEADER_HEARTBEAT_INTERVAL == 5000

LEADER_TIMEOUT == 15000

\* The delay of forceSync's timeout timer (line 1632).
FORCE_SYNC_TIMEOUT == 15000

MAX_RETRIES_PER_ITEM == 3

REALTIME_REFRESH_DEBOUNCE_MS == 300

\* The cap of the retry queue.  The source sets 100 (line 29); the queue code
\* only compares the queue's length with it, and the model checks the queue
\* with a small cap so that full and overfull queues are reached.
MAX_RETRY_QUEUE_SIZE == 3

(***************************************************************************)
(* Bounds of the model.                                                    *)
(***************************************************************************)
\* Number of tabs (processes) attached to the same chrome.storage.local.
NumTabs == 2

\* The clock advances in steps of one heartbeat interval, this many times.
MaxClockTicks == 4

\* Calls of addToRetryQueue in one behaviour.
MaxAddCalls == 4

\* The clock of the realtime timers advances this many times.
MaxRtTicks == 7

\* The clock of the reconnect timers advances this many times.
MaxSubTicks == 4

\* The reconnect timers one run starts.
MaxReconnectTimers == 2

Tabs == 1 .. NumTabs

VARIABLES
    \* ---- leader election (shared store and per-tab fields) ----
    now,                 \* Date.now(), in ms
    cloud_sync_leader,   \* the shared Leader Record in chrome.storage.local
    lastRecordWrite,     \* history: time of the last set/remove of the record
    tabPhase,            \* per tab: "constructed", "running" or "closed"
    isLeader,            \* per tab: this.isLeader
    leaderReady,         \* per tab: this.leaderReady
    leaderCheckInterval, \* per tab: this.leaderCheckInterval is not null
    electPc,             \* per tab: position inside tryBecomeLeader/becomeLeader
    electFromInit,       \* per tab: the election in flight was started by init
    relPc,               \* per tab: position inside releaseLeadership
    lastElection,        \* history, per tab: how its last tryBecomeLeader
                         \* went: "none", "declined", "candidate", "won", "lost"
    \* ---- retry queue (one tab) ----
    retryQueue,          \* this.retryQueue
    itemsToRetry,        \* processRetryQueue's local copy, the part not yet replayed
    draining,            \* a processRetryQueue call is in flight
    addCalls,            \* history: number of addToRetryQueue calls so far
    lastQueueEvent,      \* history: what the last queue step did
    \* ---- sync (one tab, its local store, the remote store) ----
    currentUser,         \* this.currentUser is not null
    isOnline,            \* this.isOnline
    localFolders,        \* local store, table folders: id -> record
    localPrompts,        \* local store, table prompts: id -> record
    remoteFolders,       \* remote store, table folders: id -> row
    remotePrompts,       \* remote store, table prompts: id -> row
    lastSync,            \* history: the last sync operation and what it did
    \* ---- realtime UI refresh (one tab) ----
    rtNow,               \* the clock of the tab's timers, in ms
    realtimeRefreshTimer,\* this.realtimeRefreshTimer: Null or the timer's due time
    refreshTimers,       \* the setTimeout timers of the refresh that are
                         \* neither cleared nor fired, by due time
    eventSeen,           \* history: a realtime event has been handled
    lastEventAt,         \* history: time of the last handled realtime event
    eventsPending,       \* history: events handled since the last refresh
    eventsCollapsed,     \* history: events the last refresh stood for
    refreshesSinceEvent, \* history: refreshes fired since the last event
    \* ---- sync metadata and sign-out (one tab) ----
    offlineWorkPending,  \* chrome.storage.local: the offline-work-pending flag
    lastAction,          \* chrome.storage.local: the last sync action
    signOutPc,           \* position inside signOut
    signInPc,            \* position inside performBackgroundSyncAfterSignIn
    isSyncing,           \* this.isSyncing
    autoSyncPc,          \* position inside performAutoSync
    forceSync,           \* the call of forceSync: its position, the due time
                         \* of its timeout timer, and what it returned
    \* ---- realtime subscriptions (one tab) ----
    subNow,              \* the clock of the reconnect timers, in ms
    subscription,        \* per table: "none", or the function that created
                         \* this.foldersSubscription / this.promptsSubscription
    reconnectTimer,      \* per table: this.foldersReconnectTimer /
                         \* this.promptsReconnectTimer, Null or a timer id
    reconnectTimers,     \* the setTimeout timers of the reconnects that are
                         \* neither cleared nor fired
    nextTimerId,         \* the id the next setTimeout returns
    oldCallbacks,        \* status callbacks of channels the tab let go of
    healPending,         \* history, per table: a failure status of the
                         \* current subscription is not yet followed by a
                         \* reconnection attempt
    lastSubEvent         \* history: what the last subscription step did

leaderVars == <<now, cloud_sync_leader, lastRecordWrite, tabPhase, isLeader,
                leaderReady, leaderCheckInterval, electPc, electFromInit, relPc,
                lastElection>>

queueVars == <<retryQueue, itemsToRetry, draining, addCalls, lastQueueEvent>>

syncVars == <<currentUser, isOnline, localFolders, localPrompts,
              remoteFolders, remotePrompts, lastSync>>

realtimeVars == <<rtNow, realtimeRefreshTimer, refreshTimers, eventSeen,
                  lastEventAt, eventsPending, eventsCollapsed,
                  refreshesSinceEvent>>

offlineVars == <<offlineWorkPending, lastAction, signOutPc, signInPc,
                 isSyncing, autoSyncPc,
                   forceSync>>

subVars == <<subNow, subscription, reconnectTimer, reconnectTimers,
             nextTimerId, oldCallbacks, healPending, lastSubEvent>>

\* The sync part without its history variable.
syncVars_butLastSync == <<currentUser, isOnline, localFolders, localPrompts,
                          remoteFolders, remotePrompts>>

vars == <<leaderVars, queueVars, syncVars, realtimeVars, offlineVars, subVars>>

\* What the steps of one part of the model leave unchanged.
nonLeaderVars == <<queueVars, syncVars, realtimeVars, offlineVars, subVars>>

nonQueueVars == <<leaderVars, syncVars, realtimeVars, offlineVars, subVars>>

nonSyncVars == <<leaderVars, queueVars, realtimeVars, offlineVars, subVars>>

(***************************************************************************)
(* The Leader Record.  chrome.storage.local holds either no value under    *)
(* the key cloud_sync_leader or { tabId, timestamp }.                      *)
(***************************************************************************)
NoLeader == [tabId |-> 0, timestamp |-> 0]

LeaderInfo(p, t) == [tabId |-> p, timestamp |-> t]

\* A variant of tryBecomeLeader's condition without the lease expiry.
IsCandidate_NoExpiry(p, leaderInfo, t) ==
    \/ leaderInfo = NoLeader
    \/ leaderInfo.tabId = p

\* A variant of the condition with the comparison of the tab ids inverted.
IsCandidate_OtherTab(p, leaderInfo, t) ==
    \/ leaderInfo = NoLeader
    \/ (t - leaderInfo.timestamp) > LEADER_TIMEOUT
    \/ leaderInfo.tabId # p

\* A variant of the condition that takes a record of exactly the timeout's
\* age for expired (>= for >).
IsCandidate_AtTimeout(p, leaderInfo, t) ==
    \/ leaderInfo = NoLeader
    \/ (t - leaderInfo.timestamp) >= LEADER_TIMEOUT
    \/ leaderInfo.tabId = p

\* tryBecomeLeader's condition (lines 3169-3171) on the record it read.
IsCandidate(p, leaderInfo, t) ==
    \/ leaderInfo = NoLeader
    \/ (t - leaderInfo.timestamp) > LEADER_TIMEOUT
    \/ leaderInfo.tabId = p

\* becomeLeader's verification (line 3211) on the record it re-read.
VerifiedLeader(p, currentLeader) ==
    /\ currentLeader # NoLeader
    /\ currentLeader.tabId = p

\* verifyLeadershipForSync's result (lines 3328-3348).
VerifyLeadershipResult(p) ==
    /\ isLeader[p]
    /\ cloud_sync_leader # NoLeader
    /\ cloud_sync_leader.tabId = p
    /\ (now - cloud_sync_leader.timestamp) <= LEADER_TIMEOUT

LeaderInit ==
    /\ now = 0
    /\ cloud_sync_leader = NoLeader
    /\ lastRecordWrite = 0
    /\ tabPhase = [p \in Tabs |-> "constructed"]
    /\ isLeader = [p \in Tabs |-> FALSE]
    /\ leaderReady = [p \in Tabs |-> FALSE]
    /\ leaderCheckInterval = [p \in Tabs |-> FALSE]
    /\ electPc = [p \in Tabs |-> "idle"]
    /\ electFromInit = [p \in Tabs |-> FALSE]
    /\ relPc = [p \in Tabs |-> "idle"]
    /\ lastElection = [p \in Tabs |-> "none"]

\* The end of tryBecomeLeader: back in initLeaderElection (lines 3131-3136)
\* the heartbeat interval is started; back in checkLeaderStatus nothing more.
ElectionReturns(p) ==
    /\ electPc' = [electPc EXCEPT ![p] = "idle"]
    /\ electFromInit' = [electFromInit EXCEPT ![p] = FALSE]
    /\ leaderReady' = [leaderReady EXCEPT ![p] = @ \/ electFromInit[p]]
    /\ leaderCheckInterval' =
           [leaderCheckInterval EXCEPT ![p] = @ \/ electFromInit[p]]

\* init() -> initLeaderElection() -> tryBecomeLeader() up to the jitter delay.
InitLeaderElection(p) ==
    /\ UNCHANGED nonLeaderVars
    /\ tabPhase[p] = "constructed"
    /\ tabPhase' = [tabPhase EXCEPT ![p] = "running"]
    /\ electPc' = [electPc EXCEPT ![p] = "jitter"]
    /\ electFromInit' = [electFromInit EXCEPT ![p] = TRUE]
    /\ UNCHANGED <<now, cloud_sync_leader, lastRecordWrite, isLeader,
                   leaderReady, leaderCheckInterval, relPc,
                   lastElection>>

\* tryBecomeLeader after the jitter: read the record and decide.
TryBecomeLeaderRead(p) ==
    /\ UNCHANGED nonLeaderVars
    /\ tabPhase[p] = "running"
    /\ electPc[p] = "jitter"
    /\ IF IsCandidate(p, cloud_sync_leader, now)
       THEN /\ electPc' = [electPc EXCEPT ![p] = "write"]
            /\ lastElection' = [lastElection EXCEPT ![p] = "candidate"]
            /\ UNCHANGED <<isLeader, electFromInit, leaderReady,
                           leaderCheckInterval>>
       ELSE /\ isLeader' = [isLeader EXCEPT ![p] = FALSE]
            /\ lastElection' = [lastElection EXCEPT ![p] = "declined"]
            /\ ElectionReturns(p)
    /\ UNCHANGED <<now, cloud_sync_leader, lastRecordWrite, tabPhase, relPc>>

\* becomeLeader: write { tabId, timestamp: Date.now() }.
BecomeLeaderWrite(p) ==
    /\ UNCHANGED nonLeaderVars
    /\ tabPhase[p] = "running"
    /\ electPc[p] = "write"
    /\ cloud_sync_leader' = LeaderInfo(p, now)
    /\ lastRecordWrite' = now
    /\ electPc' = [electPc EXCEPT ![p] = "settle"]
    /\ UNCHANGED <<now, tabPhase, isLeader, leaderReady, leaderCheckInterval,
                   electFromInit, relPc,
                   lastElection>>

\* becomeLeader after the 50 ms settle delay: re-read and compare.
BecomeLeaderVerify(p) ==
    /\ UNCHANGED nonLeaderVars
    /\ tabPhase[p] = "running"
    /\ electPc[p] = "settle"
    /\ isLeader' = [isLeader EXCEPT ![p] = VerifiedLeader(p, cloud_sync_leader)]
    /\ lastElection' =
           [lastElection EXCEPT
               ![p] = IF VerifiedLeader(p, cloud_sync_leader)
                      THEN "won" ELSE "lost"]
    /\ ElectionReturns(p)
    /\ UNCHANGED <<now, cloud_sync_leader, lastRecordWrite, tabPhase, relPc>>

\* checkLeaderStatus, the heartbeat tick of a tab that believes it leads:
\* it rewrites the record without reading it.
CheckLeaderStatusHeartbeat(p) ==
    /\ UNCHANGED nonLeaderVars
    /\ tabPhase[p] = "running"
    /\ leaderCheckInterval[p]
    /\ isLeader[p]
    /\ cloud_sync_leader' = LeaderInfo(p, now)
    /\ lastRecordWrite' = now
    /\ UNCHANGED <<now, tabPhase, isLeader, leaderReady, leaderCheckInterval,
                   electPc, electFromInit, relPc,
                   lastElection>>

\* checkLeaderStatus, the tick of a follower: a new election attempt.
\* (One attempt in flight per tab.)
CheckLeaderStatusElect(p) ==
    /\ UNCHANGED nonLeaderVars
    /\ tabPhase[p] = "running"
    /\ leaderCheckInterval[p]
    /\ ~isLeader[p]
    /\ electPc[p] = "idle"
    /\ electPc' = [electPc EXCEPT ![p] = "jitter"]
    /\ UNCHANGED <<now, cloud_sync_leader, lastRecordWrite, tabPhase, isLeader,
                   leaderReady, leaderCheckInterval, electFromInit, relPc,
                   lastElection>>

\* The end of releaseLeadership (lines 3251-3257).
ReleaseReturns(p) ==
    /\ isLeader' = [isLeader EXCEPT ![p] = FALSE]
    /\ leaderCheckInterval' = [leaderCheckInterval EXCEPT ![p] = FALSE]
    /\ relPc' = [relPc EXCEPT ![p] = "idle"]

\* releaseLeadership (sign-out, beforeunload) of a tab with isLeader: read
\* the record; the remove follows in a later step if it names this tab.
ReleaseLeadershipRead(p) ==
    /\ UNCHANGED nonLeaderVars
    /\ tabPhase[p] = "running"
    /\ relPc[p] = "idle"
    /\ isLeader[p]
    /\ IF cloud_sync_leader # NoLeader /\ cloud_sync_leader.tabId = p
       THEN /\ relPc' = [relPc EXCEPT ![p] = "remove"]
            /\ UNCHANGED <<isLeader, leaderCheckInterval>>
       ELSE ReleaseReturns(p)
    /\ UNCHANGED <<now, cloud_sync_leader, lastRecordWrite, tabPhase,
                   leaderReady, electPc, electFromInit, lastElection>>

\* releaseLeadership: chrome.storage.local.remove(['cloud_sync_leader']).
ReleaseLeadershipRemove(p) ==
    /\ UNCHANGED nonLeaderVars
    /\ tabPhase[p] = "running"
    /\ relPc[p] = "remove"
    /\ cloud_sync_leader' = NoLeader
    /\ lastRecordWrite' = now
    /\ ReleaseReturns(p)
    /\ UNCHANGED <<now, tabPhase, leaderReady, electPc, electFromInit,
                   lastElection>>

\* verifyLeadershipForSync, called by the sync operations.
VerifyLeadershipForSync(p) ==
    /\ UNCHANGED nonLeaderVars
    /\ tabPhase[p] = "running"
    /\ isLeader' = [isLeader EXCEPT ![p] = VerifyLeadershipResult(p)]
    /\ UNCHANGED <<now, cloud_sync_leader, lastRecordWrite, tabPhase,
                   leaderReady, leaderCheckInterval, electPc, electFromInit,
                   relPc, lastElection>>

\* The tab is closed or crashes without releaseLeadership having run: the
\* process and its timers are gone, the record stays.
CloseTab(p) ==
    /\ UNCHANGED nonLeaderVars
    /\ tabPhase[p] = "running"
    /\ tabPhase' = [tabPhase EXCEPT ![p] = "closed"]
    /\ isLeader' = [isLeader EXCEPT ![p] = FALSE]
    /\ leaderCheckInterval' = [leaderCheckInterval EXCEPT ![p] = FALSE]
    /\ electPc' = [electPc EXCEPT ![p] = "idle"]
    /\ electFromInit' = [electFromInit EXCEPT ![p] = FALSE]
    /\ relPc' = [relPc EXCEPT ![p] = "idle"]
    /\ UNCHANGED <<now, cloud_sync_leader, lastRecordWrite, leaderReady,
                   lastElection>>

\* Time passes.  Timers (setTimeout, setInterval) fire no earlier than they
\* are due but may fire late, so no step is forced before the clock moves.
AdvanceTime ==
    /\ UNCHANGED nonLeaderVars
    /\ now < MaxClockTicks * LEADER_HEARTBEAT_INTERVAL
    /\ now' = now + LEADER_HEARTBEAT_INTERVAL
    /\ UNCHANGED <<cloud_sync_leader, lastRecordWrite, tabPhase, isLeader,
                   leaderReady, leaderCheckInterval, electPc, electFromInit,
                   relPc, lastElection>>

LeaderNext ==
    \/ AdvanceTime
    \/ \E p \in Tabs : InitLeaderElection(p)
    \/ \E p \in Tabs : TryBecomeLeaderRead(p)
    \/ \E p \in Tabs : BecomeLeaderWrite(p)
    \/ \E p \in Tabs : BecomeLeaderVerify(p)
    \/ \E p \in Tabs : CheckLeaderStatusHeartbeat(p)
    \/ \E p \in Tabs : CheckLeaderStatusElect(p)
    \/ \E p \in Tabs : ReleaseLeadershipRead(p)
    \/ \E p \in Tabs : ReleaseLeadershipRemove(p)
    \/ \E p \in Tabs : VerifyLeadershipForSync(p)
    \/ \E p \in Tabs : CloseTab(p)

QueueInit ==
    /\ retryQueue = <<>>
    /\ itemsToRetry = <<>>
    /\ draining = FALSE
    /\ addCalls = 0
    /\ lastQueueEvent = "none"

(***************************************************************************)
(* Records of the local store and rows of the remote store.  A timestamp   *)
(* is a member of Stamps; Null stands for a field that is null or missing  *)
(* (falsy in the code's || and if tests).  A record's timestamps stand for *)
(* its version: the model carries no other payload.                        *)
(***************************************************************************)
Stamps == {50, 100}

\* What new Date().toISOString() yields when a sync runs: later than Stamps.
NowStamp == 150

Null == 0

\* The value of a property that the object does not have.
Undefined == -2

\* new Date(undefined).getTime()
NaN == -1

FolderIds == {"f1"}

PromptIds == {"p1", "default-001"}

\* id.startsWith('default-')
IsDefaultId(id) == id = "default-001"

AbsentLocal == [present |-> FALSE, createdAt |-> Null, updatedAt |-> Null]

AbsentRemote == [present |-> FALSE, created_at |-> Null, updated_at |-> Null]

LocalRecords ==
    { r \in [present : {TRUE}, createdAt : Stamps \cup {Null},
             updatedAt : Stamps \cup {Null}] :
          (r.createdAt # Null /\ r.updatedAt # Null)
              => r.createdAt <= r.updatedAt }

RemoteRows ==
    { r \in [present : {TRUE}, created_at : Stamps, updated_at : Stamps] :
          r.created_at <= r.updated_at }

\* A seed (demo) prompt of the local store and a copy of it in the remote store.
SeedPrompt == [present |-> TRUE, createdAt |-> 50, updatedAt |-> Null]

SeedRow == [present |-> TRUE, created_at |-> 50, updated_at |-> 50]

NoSync ==
    [op |-> "none", success |-> FALSE, verified |-> "none",
     wroteRemote |-> FALSE, uploadedFolders |-> {}, uploadedPrompts |-> {},
     downloadedFolders |-> {}, downloadedPrompts |-> {},
     clearedFolders |-> {}, clearedPrompts |-> {}, skipped |-> FALSE,
     echoed |-> {},
     repeat |-> FALSE, prevDownloads |-> 0]

\* No call of forceSync so far.
NoForceSync == [pc |-> "idle", due |-> 0, result |-> "none"]

\* The sync part right after construction: nobody signed in, empty stores.
SyncIdle ==
    /\ currentUser = FALSE
    /\ isOnline = TRUE
    /\ localFolders = [id \in FolderIds |-> AbsentLocal]
    /\ localPrompts = [id \in PromptIds |-> AbsentLocal]
    /\ remoteFolders = [id \in FolderIds |-> AbsentRemote]
    /\ remotePrompts = [id \in PromptIds |-> AbsentRemote]
    /\ lastSync = NoSync

\* The realtime part right after construction: no refresh timer (line 46),
\* no event handled.
RealtimeIdle ==
    /\ rtNow = 0
    /\ realtimeRefreshTimer = Null
    /\ refreshTimers = {}
    /\ eventSeen = FALSE
    /\ lastEventAt = 0
    /\ eventsPending = 0
    /\ eventsCollapsed = 0
    /\ refreshesSinceEvent = 0

\* The sync metadata of a fresh profile (getSyncMetadata's defaults, lines
\* 242-246); no signOut and no sign-in sync in flight.
OfflineIdle ==
    /\ offlineWorkPending = FALSE
    /\ lastAction = "never"
    /\ signOutPc = "idle"
    /\ signInPc = "idle"
    /\ isSyncing = FALSE
    /\ autoSyncPc = "idle"
    /\ forceSync = NoForceSync

\* The two tables with a realtime subscription.
SubTables == {"folders", "prompts"}

\* The subscription part right after construction: no channel, no timer.
SubIdle ==
    /\ subNow = 0
    /\ subscription = [t \in SubTables |-> "none"]
    /\ reconnectTimer = [t \in SubTables |-> Null]
    /\ reconnectTimers = {}
    /\ nextTimerId = 1
    /\ oldCallbacks = {}
    /\ healPending = [t \in SubTables |-> FALSE]
    /\ lastSubEvent = "none"

\* What every specification's initial state has outside its own part.
RestIdle == RealtimeIdle /\ OfflineIdle /\ SubIdle

\* The tabs are constructed; the queue is empty and nothing is synced.
LeaderSpecInit == LeaderInit /\ QueueInit /\ SyncIdle /\ RestIdle

LeaderSpec == LeaderSpecInit /\ [][LeaderNext]_vars

\* The same steps where a running tab's heartbeat interval keeps firing and
\* its election attempts run to their end (setInterval every 5 s; the
\* awaited storage calls and delays of tryBecomeLeader and becomeLeader
\* complete).
LeaderFairSpec ==
    /\ LeaderSpecInit
    /\ [][LeaderNext]_vars
    /\ \A p \in Tabs :
          /\ WF_vars(CheckLeaderStatusElect(p))
          /\ WF_vars(TryBecomeLeaderRead(p))
          /\ WF_vars(BecomeLeaderWrite(p))
          /\ WF_vars(BecomeLeaderVerify(p))

(***************************************************************************)
(* The retry queue (addToRetryQueue, processRetryQueue).  An item is        *)
(* { operation, storeName, data, retries, timestamp }; of data the queue   *)
(* code reads only data.id.  The field failed is history: the number of    *)
(* replays of the item that threw.                                         *)
(***************************************************************************)
\* The (operation, storeName, data.id) that the callers of addToRetryQueue
\* pass: both operations, both stores, equal ids in different stores.
QueueInputs ==
    { [operation |-> "upsert", storeName |-> "folders", id |-> 1],
      [operation |-> "upsert", storeName |-> "prompts", id |-> 1],
      [operation |-> "delete", storeName |-> "prompts", id |-> 1],
      [operation |-> "upsert", storeName |-> "folders", id |-> 2],
      [operation |-> "delete", storeName |-> "folders", id |-> 2] }

RetryItem(operation, storeName, id, t) ==
    [operation |-> operation, storeName |-> storeName, id |-> id,
     retries |-> 0, timestamp |-> t, failed |-> 0]

\* The findIndex predicate of addToRetryQueue (lines 1475-1479).
Equivalent(item, operation, storeName, id) ==
    /\ item.storeName = storeName
    /\ item.id = id
    /\ item.operation = operation

HasEquivalent(queue, operation, storeName, id) ==
    \E i \in 1 .. Len(queue) : Equivalent(queue[i], operation, storeName, id)

\* A variant of addToRetryQueue that makes room by dropping the newest entry.
addToRetryQueue_DropNewest(queue, operation, storeName, id, t) ==
    LET shifted == IF Len(queue) >= MAX_RETRY_QUEUE_SIZE
                   THEN SubSeq(queue, 1, Len(queue) - 1)
                   ELSE queue
    IN  IF HasEquivalent(shifted, operation, storeName, id)
        THEN shifted
        ELSE Append(shifted, RetryItem(operation, storeName, id, t))

\* addToRetryQueue (lines 1467-1496) as a function of the queue: the shift
\* of a full queue comes first, then the search for an equivalent entry.
addToRetryQueue(queue, operation, storeName, id, t) ==
    LET shifted == IF Len(queue) >= MAX_RETRY_QUEUE_SIZE
                   THEN Tail(queue)
                   ELSE queue
    IN  IF HasEquivalent(shifted, operation, storeName, id)
        THEN shifted
        ELSE Append(shifted, RetryItem(operation, storeName, id, t))

\* A variant of the catch block that re-enqueues once more (<= for <).
requeueFailed_OneMore(queue, item) ==
    LET bumped == [item EXCEPT !.retries = @ + 1, !.failed = @ + 1]
    IN  IF bumped.retries <= MAX_RETRIES_PER_ITEM
        THEN Append(queue, bumped)
        ELSE queue

\* The catch block of processRetryQueue (lines 1532-1541) as a function of
\* the queue: item.retries++, then push if under the cap.
requeueFailed(queue, item) ==
    LET bumped == [item EXCEPT !.retries = @ + 1, !.failed = @ + 1]
    IN  IF bumped.retries < MAX_RETRIES_PER_ITEM
        THEN Append(queue, bumped)
        ELSE queue

\* Whether the replay of an item can throw into processRetryQueue's catch:
\* upsertFolder/upsertPrompt throw on a remote error (lines 2233, 2258);
\* deleteFolder/deletePrompt catch every error themselves (lines 2130, 2188).
ReplayCanThrow(item) == item.operation = "upsert"

AddToRetryQueue(operation, storeName, id) ==
    /\ UNCHANGED nonQueueVars
    /\ addCalls < MaxAddCalls
    /\ addCalls' = addCalls + 1
    /\ retryQueue' = addToRetryQueue(retryQueue, operation, storeName, id, now)
    /\ lastQueueEvent' =
           IF Len(retryQueue) >= MAX_RETRY_QUEUE_SIZE
           THEN IF HasEquivalent(Tail(retryQueue), operation, storeName, id)
                THEN "evicted_skipped"
                ELSE IF HasEquivalent(retryQueue, operation, storeName, id)
                THEN "evicted_replaced"
                ELSE "evicted_added"
           ELSE IF HasEquivalent(retryQueue, operation, storeName, id)
                THEN "skipped"
                ELSE "added"
    /\ UNCHANGED <<itemsToRetry, draining>>

\* processRetryQueue up to its first await: copy the queue, clear it.
ProcessRetryQueueStart ==
    /\ UNCHANGED nonQueueVars
    /\ ~draining
    /\ Len(retryQueue) > 0
    /\ itemsToRetry' = retryQueue
    /\ retryQueue' = <<>>
    /\ draining' = TRUE
    /\ lastQueueEvent' = "drain_started"
    /\ UNCHANGED addCalls

\* The replay of the next item returns without throwing.
ReplaySucceeds ==
    /\ UNCHANGED nonQueueVars
    /\ draining
    /\ Len(itemsToRetry) > 0
    /\ itemsToRetry' = Tail(itemsToRetry)
    /\ draining' = (Len(itemsToRetry) > 1)
    /\ lastQueueEvent' = "replay_ok"
    /\ UNCHANGED <<retryQueue, addCalls>>

\* The replay of the next item throws.
ReplayFails ==
    /\ UNCHANGED nonQueueVars
    /\ draining
    /\ Len(itemsToRetry) > 0
    /\ ReplayCanThrow(Head(itemsToRetry))
    /\ retryQueue' = requeueFailed(retryQueue, Head(itemsToRetry))
    /\ itemsToRetry' = Tail(itemsToRetry)
    /\ draining' = (Len(itemsToRetry) > 1)
    /\ lastQueueEvent' =
           IF Len(retryQueue') > Len(retryQueue)
           THEN "replay_requeued"
           ELSE "replay_dropped"
    /\ UNCHANGED addCalls

\* The replay of the next item, a delete, does not reach the remote store
\* or gets an error from it: deleteFolder/deletePrompt return early when
\* signed out or offline (lines 2111-2118, 2169-2176) and catch the error
\* of the remote delete (lines 2130-2132, 2188-2190), so the call returns
\* and processRetryQueue takes the replay for done (lines 1523-1531).
ReplayDeleteFails ==
    /\ UNCHANGED nonQueueVars
    /\ draining
    /\ Len(itemsToRetry) > 0
    /\ ~ReplayCanThrow(Head(itemsToRetry))
    /\ itemsToRetry' = Tail(itemsToRetry)
    /\ draining' = (Len(itemsToRetry) > 1)
    /\ lastQueueEvent' = "replay_error_swallowed"
    /\ UNCHANGED <<retryQueue, addCalls>>

QueueNext ==
    \/ \E k \in QueueInputs : AddToRetryQueue(k.operation, k.storeName, k.id)
    \/ ProcessRetryQueueStart
    \/ ReplaySucceeds
    \/ ReplayFails
    \/ ReplayDeleteFails

QueueSpecInit == LeaderInit /\ QueueInit /\ SyncIdle /\ RestIdle

QueueSpec == QueueSpecInit /\ [][QueueNext]_vars

(***************************************************************************)
(* The sync operations of one tab (tab Self) on its local store and the    *)
(* remote store.  Each operation is one step, with the outcome of its      *)
(* remote calls chosen by the environment.                                 *)
(***************************************************************************)
Self == 1

\* a || b
JsOr(a, b) == IF a = Null \/ a = Undefined THEN b ELSE a

\* new Date(v).getTime(): null and 0 give 0, undefined gives NaN.
DateGetTime(v) == IF v = Undefined THEN NaN ELSE v

\* a > b on numbers: false as soon as one side is NaN.
JsGreater(a, b) == a # NaN /\ b # NaN /\ a > b

\* cloudToLocalFolder / cloudToLocalPrompt (lines 2330-2341, 2365-2378).
cloudToLocal(row) ==
    [present |-> TRUE, createdAt |-> row.created_at,
     updatedAt |-> row.updated_at]

\* localToCloudFolder / localToCloudPrompt (lines 2313-2325, 2346-2360).
localToCloud(record) ==
    [present |-> TRUE,
     created_at |-> JsOr(record.createdAt, NowStamp),
     updated_at |-> JsOr(record.updatedAt, NowStamp)]

\* A variant of the decision that also downloads a row as old as the local
\* record (>= for >).
shouldDownload_NotOlder(record, row) ==
    LET cloudUpdatedAt == DateGetTime(row.updated_at)
    IN  IF ~record.present
        THEN TRUE
        ELSE IF record.updatedAt # Null
        THEN ~JsGreater(DateGetTime(record.updatedAt), cloudUpdatedAt)
        ELSE ~JsGreater(DateGetTime(JsOr(record.createdAt, 0)), cloudUpdatedAt)

\* performInitialSync's decision for one remote row (lines 1886-1903 for
\* folders, 1926-1943 for prompts).
shouldDownload(record, row) ==
    LET cloudUpdatedAt == DateGetTime(row.updated_at)
    IN  IF ~record.present
        THEN TRUE
        ELSE IF record.updatedAt # Null
        THEN JsGreater(cloudUpdatedAt, DateGetTime(record.updatedAt))
        ELSE JsGreater(cloudUpdatedAt, DateGetTime(JsOr(record.createdAt, 0)))

\* The folders performInitialSync downloads.
initialSyncFolders(local, remote) ==
    { id \in FolderIds :
          remote[id].present /\ shouldDownload(local[id], remote[id]) }

\* The prompts performInitialSync downloads: demo prompts are skipped.
initialSyncPrompts(local, remote) ==
    { id \in PromptIds :
          /\ remote[id].present
          /\ ~IsDefaultId(id)
          /\ shouldDownload(local[id], remote[id]) }

\* The functions that store what the remote store sent.
DownloadCallers ==
    {"performInitialSync", "performSmartMerge",
     "handleRealtimeFolderChange", "handleRealtimePromptChange"}

\* A variant in which the downloads are stored without options.
writeOptions_None(caller) == "none"

\* The options a function passes to dbManager.put and dbManager.delete:
\* {fromRealtime: true} in performSmartMerge (lines 389, 399, 448, 458),
\* performInitialSync (1908, 1948) and the realtime handlers (2657, 2662,
\* 2695, 2701); {skipCloudSync: true} in signOut (1357, 1364).
writeOptions(caller) ==
    IF caller \in DownloadCallers THEN "fromRealtime"
    ELSE IF caller = "signOut" THEN "skipCloudSync"
    ELSE "none"

\* The local store adapter sends a local write to the remote store unless
\* the write is tagged (comment at lines 1352-1354: fromRealtime skips the
\* cloud sync and the tab notifications, skipCloudSync the cloud sync).
triggersCloudSync(options) == options \notin {"fromRealtime", "skipCloudSync"}

\* The ids among those a function stored or deleted locally whose write the
\* adapter sends back to the remote store.
echoedWrites(caller, ids) ==
    IF triggersCloudSync(writeOptions(caller)) THEN ids ELSE {}

\* dbManager.put of the converted rows of the ids in downloads.
putDownloaded(local, remote, downloads) ==
    [id \in DOMAIN local |->
        IF id \in downloads THEN cloudToLocal(remote[id]) ELSE local[id]]

\* supabase upsert of the converted records of the ids in uploads.
upsertUploaded(remote, local, uploads) ==
    [id \in DOMAIN remote |->
        IF id \in uploads THEN localToCloud(local[id]) ELSE remote[id]]

\* performSmartMerge reads the timestamps of a local record under the
\* remote column names (lines 368, 394, 428, 453); a local record has the
\* properties createdAt and updatedAt only.
mergeLocalTime(record) == DateGetTime(JsOr(Undefined, Undefined))

mergeCloudTime(row) == DateGetTime(JsOr(row.updated_at, row.created_at))

\* performSmartMerge, strategy 'auto': the ids it collects for the batch
\* upload, given the rows its select returned (ids: the local ids merged).
mergeUploads(ids, local, rows) ==
    { id \in ids :
          /\ local[id].present
          /\ \/ ~rows[id].present
             \/ JsGreater(mergeLocalTime(local[id]), mergeCloudTime(rows[id])) }

\* performSmartMerge, strategy 'auto': the ids of the rows it puts locally.
mergeDownloads(ids, local, rows) ==
    { id \in DOMAIN rows :
          /\ rows[id].present
          /\ \/ ~(id \in ids /\ local[id].present)
             \/ JsGreater(mergeCloudTime(rows[id]), mergeLocalTime(local[id])) }

\* What a select returns: the table, or no data on an error
\* ((cloudFolders || []) in performSmartMerge).
selected(remote, ok) ==
    IF ok THEN remote ELSE [id \in DOMAIN remote |-> AbsentRemote]

\* cleanupDemoPrompts (lines 2003-2031): one remote DELETE of the rows whose
\* id is like 'default-%'.
cleanupDemoPrompts(remote, ok) ==
    IF currentUser /\ isOnline /\ ok
    THEN [id \in DOMAIN remote |->
             IF IsDefaultId(id) THEN AbsentRemote ELSE remote[id]]
    ELSE remote

\* performInitialSync (lines 1838-1997).  fetchOk: the two selects return
\* data; cleanupOk: the remote delete of cleanupDemoPrompts succeeds.
InitialSync(fetchOk, cleanupOk) ==
    /\ UNCHANGED <<currentUser, isOnline, remoteFolders>>
    /\ IF currentUser /\ fetchOk
       THEN LET folders == initialSyncFolders(localFolders, remoteFolders)
                prompts == initialSyncPrompts(localPrompts, remotePrompts)
                \* history: the previous operation was a successful run too
                again == lastSync.op = "performInitialSync" /\ lastSync.success
            IN  /\ localFolders' =
                       putDownloaded(localFolders, remoteFolders, folders)
                /\ localPrompts' =
                       putDownloaded(localPrompts, remotePrompts, prompts)
                /\ remotePrompts' = cleanupDemoPrompts(remotePrompts, cleanupOk)
                /\ lastSync' =
                       [NoSync EXCEPT !.op = "performInitialSync",
                                      !.success = TRUE,
                                      !.wroteRemote = isOnline,
                                      !.downloadedFolders = folders,
                                      !.downloadedPrompts = prompts,
                                      !.echoed =
                                          echoedWrites("performInitialSync",
                                              folders \cup prompts),
                                      !.repeat = again,
                                      !.prevDownloads =
                                          IF again
                                          THEN Cardinality(
                                                   lastSync.downloadedFolders)
                                               + Cardinality(
                                                   lastSync.downloadedPrompts)
                                          ELSE 0]
       ELSE /\ UNCHANGED <<localFolders, localPrompts, remotePrompts>>
            /\ lastSync' = [NoSync EXCEPT !.op = "performInitialSync"]

\* A call of performInitialSync on its own.
PerformInitialSync(fetchOk, cleanupOk) ==
    /\ UNCHANGED nonSyncVars
    /\ InitialSync(fetchOk, cleanupOk)

\* performSmartMerge('auto') (lines 331-479), called by the sign-in sync.
\* selectOk: the selects return data; upsertOk: the batch upserts succeed.
\* A failed batch upsert throws and ends the merge with success: false.
SmartMerge(selectOk, upsertOk) ==
    /\ UNCHANGED <<currentUser, isOnline>>
    /\ currentUser
    /\ LET folderRows == selected(remoteFolders, selectOk)
           promptRows == selected(remotePrompts, selectOk)
           userPrompts == { id \in PromptIds : ~IsDefaultId(id) }
           foldersToUpload == mergeUploads(FolderIds, localFolders, folderRows)
           foldersToDownload ==
               mergeDownloads(FolderIds, localFolders, folderRows)
           promptsToUpload == mergeUploads(userPrompts, localPrompts, promptRows)
           promptsToDownload ==
               mergeDownloads(userPrompts, localPrompts, promptRows)
           foldersDone == foldersToUpload = {} \/ upsertOk
           promptsDone == foldersDone /\ (promptsToUpload = {} \/ upsertOk)
       IN  /\ remoteFolders' =
                  IF foldersDone
                  THEN upsertUploaded(remoteFolders, localFolders, foldersToUpload)
                  ELSE remoteFolders
           /\ localFolders' =
                  IF foldersDone
                  THEN putDownloaded(localFolders, folderRows, foldersToDownload)
                  ELSE localFolders
           /\ remotePrompts' =
                  IF promptsDone
                  THEN upsertUploaded(remotePrompts, localPrompts, promptsToUpload)
                  ELSE remotePrompts
           /\ localPrompts' =
                  IF promptsDone
                  THEN putDownloaded(localPrompts, promptRows, promptsToDownload)
                  ELSE localPrompts
           /\ lastSync' =
                  [NoSync EXCEPT
                     !.op = "performSmartMerge",
                     !.success = promptsDone,
                     !.wroteRemote =
                         foldersToUpload # {}
                             \/ (foldersDone /\ promptsToUpload # {}),
                     !.uploadedFolders =
                         IF foldersDone THEN foldersToUpload ELSE {},
                     !.uploadedPrompts =
                         IF promptsDone THEN promptsToUpload ELSE {},
                     !.downloadedFolders =
                         IF foldersDone THEN foldersToDownload ELSE {},
                     !.downloadedPrompts =
                         IF promptsDone THEN promptsToDownload ELSE {},
                     !.echoed =
                         echoedWrites("performSmartMerge",
                             (IF foldersDone THEN foldersToDownload ELSE {})
                                 \cup (IF promptsDone THEN promptsToDownload
                                       ELSE {}))]

\* A call of performSmartMerge on its own.
PerformSmartMerge(selectOk, upsertOk) ==
    /\ UNCHANGED nonSyncVars
    /\ SmartMerge(selectOk, upsertOk)

\* The ids of ids whose rows a loop over a select ordered by created_at
\* ascending (lines 1857-1869) reaches before the row of id.
earlierByCreation(rows, ids, id) ==
    { j \in ids : rows[j].created_at < rows[id].created_at }

\* The ids of ids whose rows a loop over a select ordered by updated_at
\* descending (lines 347-350, 409-412) reaches before the row of id.
earlierByUpdate(rows, ids, id) ==
    { j \in ids : rows[j].updated_at > rows[id].updated_at }

\* performInitialSync (lines 1849-1996) when dbManager.put rejects for the
\* record failing: the await inside the loop (lines 1908, 1948) throws into
\* the catch of the function, which returns {success: false, error}.  The
\* records before it are stored, the ones after it are not reached, and
\* cleanupDemoPrompts is not called.
InitialSyncPutFails(failing) ==
    /\ UNCHANGED <<currentUser, isOnline, remoteFolders, remotePrompts>>
    /\ currentUser
    /\ LET folders == initialSyncFolders(localFolders, remoteFolders)
           prompts == initialSyncPrompts(localPrompts, remotePrompts)
       IN  /\ failing \in folders \cup prompts
           /\ localFolders' =
                  putDownloaded(localFolders, remoteFolders,
                      IF failing \in folders
                      THEN earlierByCreation(remoteFolders, folders, failing)
                      ELSE folders)
           /\ localPrompts' =
                  putDownloaded(localPrompts, remotePrompts,
                      IF failing \in folders
                      THEN {}
                      ELSE earlierByCreation(remotePrompts, prompts, failing))
           /\ lastSync' = [NoSync EXCEPT !.op = "performInitialSync"]

PerformInitialSyncPutFails(failing) ==
    /\ UNCHANGED nonSyncVars
    /\ InitialSyncPutFails(failing)

\* performSmartMerge (lines 331-479) when the selects and the batch upserts
\* succeed and dbManager.put rejects for the record failing (lines 389, 399,
\* 451, 461): the uploads before it are done, and the catch (lines 475-478)
\* returns {success: false, error}.
SmartMergePutFails(failing) ==
    /\ UNCHANGED <<currentUser, isOnline>>
    /\ currentUser
    /\ LET userPrompts == { id \in PromptIds : ~IsDefaultId(id) }
           foldersToUpload ==
               mergeUploads(FolderIds, localFolders, remoteFolders)
           foldersToDownload ==
               mergeDownloads(FolderIds, localFolders, remoteFolders)
           promptsToUpload ==
               mergeUploads(userPrompts, localPrompts, remotePrompts)
           promptsToDownload ==
               mergeDownloads(userPrompts, localPrompts, remotePrompts)
           inFolders == failing \in foldersToDownload
       IN  /\ failing \in foldersToDownload \cup promptsToDownload
           /\ remoteFolders' =
                  upsertUploaded(remoteFolders, localFolders, foldersToUpload)
           /\ localFolders' =
                  putDownloaded(localFolders, remoteFolders,
                      IF inFolders
                      THEN earlierByUpdate(remoteFolders, foldersToDownload,
                                           failing)
                      ELSE foldersToDownload)
           /\ remotePrompts' =
                  IF inFolders
                  THEN remotePrompts
                  ELSE upsertUploaded(remotePrompts, localPrompts,
                                      promptsToUpload)
           /\ localPrompts' =
                  putDownloaded(localPrompts, remotePrompts,
                      IF inFolders
                      THEN {}
                      ELSE earlierByUpdate(remotePrompts, promptsToDownload,
                                           failing))
           /\ lastSync' =
                  [NoSync EXCEPT
                     !.op = "performSmartMerge",
                     !.wroteRemote =
                         foldersToUpload # {}
                             \/ (~inFolders /\ promptsToUpload # {}),
                     !.uploadedFolders = foldersToUpload,
                     !.uploadedPrompts =
                         IF inFolders THEN {} ELSE promptsToUpload]

PerformSmartMergePutFails(failing) ==
    /\ UNCHANGED nonSyncVars
    /\ SmartMergePutFails(failing)

\* The step of the clock of the realtime timers: a third of the debounce
\* period.
RtStep == REALTIME_REFRESH_DEBOUNCE_MS \div 3

\* The latest time of the model's clock.
RtHorizon == MaxRtTicks * RtStep

\* A variant of scheduleRealtimeUIRefresh that does not clear the timer it
\* replaces.
scheduleRealtimeUIRefresh_NoClear(timer, timers, t) ==
    timers \cup {t + REALTIME_REFRESH_DEBOUNCE_MS}

\* scheduleRealtimeUIRefresh (lines 2719-2744) on the set of live timers:
\* clearTimeout of the timer in this.realtimeRefreshTimer, then setTimeout.
scheduleRealtimeUIRefresh(timer, timers, t) ==
    (IF timer # Null THEN timers \ {timer} ELSE timers)
        \cup {t + REALTIME_REFRESH_DEBOUNCE_MS}

\* The end of a realtime handler: scheduleRealtimeUIRefresh() at the time
\* the handler has applied the event.  (The model's clock ends at
\* RtHorizon: no event is handled whose timer would be due later.)
ScheduleRefresh ==
    /\ rtNow + REALTIME_REFRESH_DEBOUNCE_MS <= RtHorizon
    /\ refreshTimers' =
           scheduleRealtimeUIRefresh(realtimeRefreshTimer, refreshTimers, rtNow)
    /\ realtimeRefreshTimer' = rtNow + REALTIME_REFRESH_DEBOUNCE_MS
    /\ eventSeen' = TRUE
    /\ lastEventAt' = rtNow
    /\ eventsPending' = IF eventsPending < 3 THEN eventsPending + 1 ELSE 3
    /\ refreshesSinceEvent' = 0
    /\ UNCHANGED <<rtNow, eventsCollapsed>>

\* handleRealtimeFolderChange (lines 2641-2673).  The payload reports the
\* remote row: INSERT/UPDATE with payload.new, DELETE with payload.old.id.
HandleRealtimeFolderChange(id) ==
    /\ UNCHANGED <<leaderVars, queueVars, offlineVars, subVars>>
    /\ UNCHANGED <<currentUser, isOnline, localPrompts, remoteFolders,
                   remotePrompts>>
    /\ localFolders' =
           [localFolders EXCEPT ![id] =
               IF remoteFolders[id].present
               THEN cloudToLocal(remoteFolders[id])
               ELSE AbsentLocal]
    /\ lastSync' = [NoSync EXCEPT !.op = "handleRealtimeFolderChange",
                                  !.success = TRUE,
                                  !.downloadedFolders = {id},
                                  !.echoed =
                                      echoedWrites(
                                          "handleRealtimeFolderChange", {id})]
    /\ ScheduleRefresh

\* handleRealtimePromptChange (lines 2678-2712).
HandleRealtimePromptChange(id) ==
    /\ UNCHANGED <<leaderVars, queueVars, offlineVars, subVars>>
    /\ UNCHANGED <<currentUser, isOnline, localFolders, remoteFolders,
                   remotePrompts>>
    /\ localPrompts' =
           [localPrompts EXCEPT ![id] =
               IF remotePrompts[id].present
               THEN cloudToLocal(remotePrompts[id])
               ELSE AbsentLocal]
    /\ lastSync' = [NoSync EXCEPT !.op = "handleRealtimePromptChange",
                                  !.success = TRUE,
                                  !.downloadedPrompts = {id},
                                  !.echoed =
                                      echoedWrites(
                                          "handleRealtimePromptChange", {id})]
    /\ ScheduleRefresh

\* The callback of a refresh timer runs (lines 2726-2743): not before the
\* timer is due.  It signals "data changed" (triggerUIRefresh) and sets
\* this.realtimeRefreshTimer to null.
RealtimeRefreshFires ==
    /\ UNCHANGED <<leaderVars, queueVars, syncVars, offlineVars, subVars>>
    /\ \E due \in refreshTimers :
           /\ due <= rtNow
           /\ refreshTimers' = refreshTimers \ {due}
    /\ realtimeRefreshTimer' = Null
    /\ eventsCollapsed' = eventsPending
    /\ eventsPending' = 0
    /\ refreshesSinceEvent' =
           IF refreshesSinceEvent < 2 THEN refreshesSinceEvent + 1 ELSE 2
    /\ UNCHANGED <<rtNow, eventSeen, lastEventAt>>

\* Time passes for the realtime timers.
RtAdvance ==
    /\ UNCHANGED <<leaderVars, queueVars, syncVars, offlineVars, subVars>>
    /\ rtNow < RtHorizon
    /\ rtNow' = rtNow + RtStep
    /\ UNCHANGED <<realtimeRefreshTimer, refreshTimers, eventSeen, lastEventAt,
                   eventsPending, eventsCollapsed, refreshesSinceEvent>>

\* A variant of the guard that does not look at the user.
liveSyncAllowed_AnyUser(user, online) == online

\* The guard of addFolder, addPrompt, deleteFolder and deletePrompt (lines
\* 2084, 2107-2118, 2139, 2165-2176): somebody is signed in and the browser
\* is online (this.supabase is set once init has run).
liveSyncAllowed(user, online) == user /\ online

\* addFolder / updateFolder (lines 2083-2099): the live upsert of a local
\* folder; an error of the upsert is caught and logged.
AddFolder(id, ok) ==
    /\ UNCHANGED nonSyncVars
    /\ UNCHANGED <<currentUser, isOnline, localFolders, localPrompts,
                   remotePrompts>>
    /\ localFolders[id].present
    /\ liveSyncAllowed(currentUser, isOnline)
    /\ remoteFolders' =
           IF ok
           THEN upsertUploaded(remoteFolders, localFolders, {id})
           ELSE remoteFolders
    /\ lastSync' = [NoSync EXCEPT !.op = "addFolder", !.success = ok,
                                  !.wroteRemote = TRUE,
                                  !.uploadedFolders = IF ok THEN {id} ELSE {}]

\* addPrompt / updatePrompt (lines 2138-2154).
AddPrompt(id, ok) ==
    /\ UNCHANGED nonSyncVars
    /\ UNCHANGED <<currentUser, isOnline, localFolders, localPrompts,
                   remoteFolders>>
    /\ localPrompts[id].present
    /\ liveSyncAllowed(currentUser, isOnline)
    /\ remotePrompts' =
           IF ok
           THEN upsertUploaded(remotePrompts, localPrompts, {id})
           ELSE remotePrompts
    /\ lastSync' = [NoSync EXCEPT !.op = "addPrompt", !.success = ok,
                                  !.wroteRemote = TRUE,
                                  !.uploadedPrompts = IF ok THEN {id} ELSE {}]

\* deleteFolder (lines 2104-2133): the live remote delete.
DeleteFolder(id, ok) ==
    /\ UNCHANGED nonSyncVars
    /\ UNCHANGED <<currentUser, isOnline, localFolders, localPrompts,
                   remotePrompts>>
    /\ liveSyncAllowed(currentUser, isOnline)
    /\ remoteFolders' =
           IF ok
           THEN [remoteFolders EXCEPT ![id] = AbsentRemote]
           ELSE remoteFolders
    /\ lastSync' = [NoSync EXCEPT !.op = "deleteFolder", !.success = ok,
                                  !.wroteRemote = TRUE]

\* deletePrompt (lines 2159-2191).
DeletePrompt(id, ok) ==
    /\ UNCHANGED nonSyncVars
    /\ UNCHANGED <<currentUser, isOnline, localFolders, localPrompts,
                   remoteFolders>>
    /\ liveSyncAllowed(currentUser, isOnline)
    /\ remotePrompts' =
           IF ok
           THEN [remotePrompts EXCEPT ![id] = AbsentRemote]
           ELSE remotePrompts
    /\ lastSync' = [NoSync EXCEPT !.op = "deletePrompt", !.success = ok,
                                  !.wroteRemote = TRUE]

\* The records and rows the user prompt starts from: a sample of LocalRecords
\* and RemoteRows (the folder starts from all of them; both tables go through
\* the same comparisons).
PromptRecordInputs ==
    { AbsentLocal,
      [present |-> TRUE, createdAt |-> 50, updatedAt |-> Null],
      [present |-> TRUE, createdAt |-> 100, updatedAt |-> 100] }

PromptRowInputs ==
    { AbsentRemote,
      [present |-> TRUE, created_at |-> 50, updated_at |-> 50],
      [present |-> TRUE, created_at |-> 50, updated_at |-> 100] }

\* A signed-in, online tab whose stores hold any folder record and row with
\* timestamps of Stamps, a user prompt, and possibly the seed prompt.
SyncInit ==
    /\ currentUser = TRUE
    /\ isOnline = TRUE
    /\ localFolders \in [FolderIds -> LocalRecords \cup {AbsentLocal}]
    /\ remoteFolders \in [FolderIds -> RemoteRows \cup {AbsentRemote}]
    /\ localPrompts \in
           { f \in [PromptIds -> PromptRecordInputs \cup {SeedPrompt}] :
                 /\ f["p1"] \in PromptRecordInputs
                 /\ f["default-001"] \in {AbsentLocal, SeedPrompt} }
    /\ remotePrompts \in
           { f \in [PromptIds -> PromptRowInputs \cup {SeedRow}] :
                 /\ f["p1"] \in PromptRowInputs
                 /\ f["default-001"] \in {AbsentRemote, SeedRow} }
    /\ lastSync = NoSync

SyncNext ==
    \/ \E fetchOk, cleanupOk \in BOOLEAN : PerformInitialSync(fetchOk, cleanupOk)
    \/ \E selectOk, upsertOk \in BOOLEAN : PerformSmartMerge(selectOk, upsertOk)
    \/ \E id \in FolderIds, ok \in BOOLEAN : AddFolder(id, ok)
    \/ \E id \in PromptIds, ok \in BOOLEAN : AddPrompt(id, ok)
    \/ \E id \in FolderIds, ok \in BOOLEAN : DeleteFolder(id, ok)
    \/ \E id \in PromptIds, ok \in BOOLEAN : DeletePrompt(id, ok)
    \/ \E failing \in FolderIds \cup PromptIds :
          PerformInitialSyncPutFails(failing)
    \/ \E failing \in FolderIds \cup PromptIds :
          PerformSmartMergePutFails(failing)

SyncSpecInit == LeaderInit /\ QueueInit /\ SyncInit /\ RestIdle

SyncSpec == SyncSpecInit /\ [][SyncNext]_vars

(***************************************************************************)
(* The realtime change handlers of one tab and the debounced UI refresh.   *)
(***************************************************************************)
\* A signed-in tab whose folder is in any state on both sides, with a user
\* prompt and the seed prompt on both sides.
RealtimeInit ==
    /\ currentUser = TRUE
    /\ isOnline = TRUE
    /\ localFolders \in [FolderIds -> LocalRecords \cup {AbsentLocal}]
    /\ remoteFolders \in [FolderIds -> RemoteRows \cup {AbsentRemote}]
    /\ localPrompts =
           [id \in PromptIds |->
               IF IsDefaultId(id)
               THEN SeedPrompt
               ELSE [present |-> TRUE, createdAt |-> 100, updatedAt |-> 100]]
    /\ remotePrompts =
           [id \in PromptIds |->
               IF IsDefaultId(id)
               THEN SeedRow
               ELSE [present |-> TRUE, created_at |-> 50, updated_at |-> 50]]
    /\ lastSync = NoSync

RealtimeNext ==
    \/ \E id \in FolderIds : HandleRealtimeFolderChange(id)
    \/ \E id \in PromptIds : HandleRealtimePromptChange(id)
    \/ RealtimeRefreshFires
    \/ RtAdvance

RealtimeSpecInit == LeaderInit /\ QueueInit /\ RealtimeInit /\ RestIdle

\* The timer callbacks get to run and time passes.
RealtimeSpec ==
    /\ RealtimeSpecInit
    /\ [][RealtimeNext]_vars
    /\ WF_vars(RealtimeRefreshFires)
    /\ WF_vars(RtAdvance)

(***************************************************************************)
(* One tab's session: sign-in with its background sync, the upload of      *)
(* offline work, sign-out, the sync metadata, and the realtime             *)
(* subscriptions with their reconnect timers.                              *)
(***************************************************************************)
\* The statuses a channel reports to its subscribe callback.
SubStatuses == {"SUBSCRIBED", "CHANNEL_ERROR", "TIMED_OUT", "CLOSED"}

FailureStatuses == {"CHANNEL_ERROR", "TIMED_OUT", "CLOSED"}

\* The back-off of the status callback of subscribeToRealtimeChanges
\* (lines 2421-2441 and 2475-2489).
reconnectDelay(status) ==
    CASE status = "CHANNEL_ERROR" -> 30000
      [] status = "TIMED_OUT" -> 10000
      [] OTHER -> 15000

\* The step of the clock of the reconnect timers, the shortest back-off,
\* and the clock's last value.  A timer fires at the first tick at or after
\* its due time, or later.
SubStep == reconnectDelay("TIMED_OUT")

SubHorizon == MaxSubTicks * SubStep

\* clearTimeout(handle): the timer with that id, if still pending, is gone.
clearTimeout(timers, handle) == { x \in timers : x.id # handle }

\* The callbacks of the channels held in this.foldersSubscription and
\* this.promptsSubscription.
currentCallbacks ==
    { [table |-> t, by |-> subscription[t]] :
          t \in { u \in SubTables : subscription[u] # "none" } }

\* The first line of reconnectFoldersSubscription and of
\* reconnectPromptsSubscription (lines 2502-2505, 2554-2557): whether the
\* reconnect goes on (this.supabase is set once init has run).
reconnectAllowed_Always(user) == TRUE

reconnectAllowed(user) == user

\* unsubscribeFromRealtimeChanges (lines 2605-2636).
Unsubscribe ==
    /\ reconnectTimers' =
           { x \in reconnectTimers :
                 \A t \in SubTables : x.id # reconnectTimer[t] }
    /\ reconnectTimer' = [t \in SubTables |-> Null]
    /\ oldCallbacks' = oldCallbacks \cup currentCallbacks
    /\ subscription' = [t \in SubTables |-> "none"]
    /\ healPending' = [t \in SubTables |-> FALSE]
    /\ UNCHANGED <<subNow, nextTimerId>>

\* subscribeToRealtimeChanges (lines 2383-2496) with this.currentUser set:
\* the pending reconnect timers are cleared, their handles kept, and both
\* fields get a new channel; a channel they held is not unsubscribed.
Subscribe ==
    /\ reconnectTimers' =
           { x \in reconnectTimers :
                 \A t \in SubTables : x.id # reconnectTimer[t] }
    /\ oldCallbacks' = oldCallbacks \cup currentCallbacks
    /\ subscription' = [t \in SubTables |-> "subscribe"]
    /\ healPending' = [t \in SubTables |-> FALSE]
    /\ UNCHANGED <<subNow, nextTimerId, reconnectTimer>>

\* A channel reports a status to its subscribe callback.  fromCurrent: the
\* channel is the one held in the tab's field; otherwise it is a channel the
\* tab let go of, whose callback still exists.  The callback that
\* subscribeToRealtimeChanges installs (lines 2413-2443, 2467-2490) clears
\* or starts the reconnect timer; the callback that reconnect*Subscription
\* installs (lines 2536-2546, 2588-2598) only logs.
StatusArrives(t, status, fromCurrent) ==
    /\ UNCHANGED <<leaderVars, queueVars, syncVars, realtimeVars, offlineVars>>
    /\ UNCHANGED <<subNow, subscription, oldCallbacks>>
    /\ \E by \in {"subscribe", "reconnect"} :
          /\ IF fromCurrent
             THEN subscription[t] = by
             ELSE [table |-> t, by |-> by] \in oldCallbacks
          /\ IF by = "subscribe" /\ status = "SUBSCRIBED"
             THEN /\ reconnectTimers' =
                         clearTimeout(reconnectTimers, reconnectTimer[t])
                  /\ UNCHANGED <<reconnectTimer, nextTimerId>>
             ELSE IF by = "subscribe"
                        /\ (status # "CLOSED" \/ currentUser)
             THEN /\ nextTimerId <= MaxReconnectTimers
                  /\ subNow + reconnectDelay(status) <= SubHorizon
                  /\ reconnectTimers' =
                         reconnectTimers \cup
                             { [id |-> nextTimerId, table |-> t,
                                due |-> subNow + reconnectDelay(status)] }
                  /\ reconnectTimer' =
                         [reconnectTimer EXCEPT ![t] = nextTimerId]
                  /\ nextTimerId' = nextTimerId + 1
             ELSE UNCHANGED <<reconnectTimers, reconnectTimer, nextTimerId>>
    /\ healPending' =
           IF fromCurrent /\ currentUser /\ status \in FailureStatuses
           THEN [healPending EXCEPT ![t] = TRUE]
           ELSE IF fromCurrent /\ status = "SUBSCRIBED"
           THEN [healPending EXCEPT ![t] = FALSE]
           ELSE healPending
    /\ lastSubEvent' = "status"

\* A reconnect timer fires: reconnectFoldersSubscription (lines 2501-2548)
\* or reconnectPromptsSubscription (lines 2553-2600) runs.
ReconnectTimerFires ==
    /\ UNCHANGED <<leaderVars, queueVars, syncVars, realtimeVars, offlineVars>>
    /\ UNCHANGED <<subNow, reconnectTimer, nextTimerId>>
    /\ \E x \in reconnectTimers :
          /\ x.due <= subNow
          /\ reconnectTimers' = reconnectTimers \ {x}
          /\ IF reconnectAllowed(currentUser)
             THEN /\ oldCallbacks' =
                         oldCallbacks \cup
                             { c \in currentCallbacks : c.table = x.table }
                  /\ subscription' =
                         [subscription EXCEPT ![x.table] = "reconnect"]
                  /\ healPending' = [healPending EXCEPT ![x.table] = FALSE]
                  /\ lastSubEvent' = "reconnected"
             ELSE /\ UNCHANGED <<oldCallbacks, subscription, healPending>>
                  /\ lastSubEvent' = "reconnect skipped"

\* Time passes for the reconnect timers.
SubAdvance ==
    /\ UNCHANGED <<leaderVars, queueVars, syncVars, realtimeVars, offlineVars>>
    /\ UNCHANGED <<subscription, reconnectTimer, reconnectTimers, nextTimerId,
                   oldCallbacks, healPending>>
    /\ subNow < SubHorizon
    /\ subNow' = subNow + SubStep
    /\ lastSubEvent' = "tick"

\* visibilitychange to hidden (lines 78-83): the tab unsubscribes.
VisibilityHidden ==
    /\ UNCHANGED <<leaderVars, queueVars, syncVars, realtimeVars, offlineVars>>
    /\ subscription # [t \in SubTables |-> "none"]
    /\ Unsubscribe
    /\ lastSubEvent' = "unsubscribed"

\* visibilitychange to visible (lines 84-90): the tab subscribes again if
\* somebody is signed in.
VisibilityVisible ==
    /\ UNCHANGED <<leaderVars, queueVars, syncVars, realtimeVars, offlineVars>>
    /\ subscription = [t \in SubTables |-> "none"]
    /\ currentUser
    /\ Subscribe
    /\ lastSubEvent' = "subscribed"

\* markOfflineWorkPending (lines 276-281).
MarkOfflineWorkPending ==
    /\ UNCHANGED <<leaderVars, queueVars, syncVars, realtimeVars, subVars>>
    /\ offlineWorkPending' = TRUE
    /\ UNCHANGED <<lastAction, signOutPc, signInPc, isSyncing, autoSyncPc,
                   forceSync>>

\* The local ids syncOfflineWorkToCloud and the sign-in sync work on.
presentIds(store) == { id \in DOMAIN store : store[id].present }

\* A variant of the filter with the negation lost.
userPromptIds_Inverted(store) == { id \in presentIds(store) : IsDefaultId(id) }

\* localPrompts.filter(p => !p.id?.startsWith('default-')) (lines 300, 679,
\* 1684).
userPromptIds(store) == { id \in presentIds(store) : ~IsDefaultId(id) }

\* A variant of the clearing that keeps every prompt.
demoPrompts_KeepAll(store) == presentIds(store)

\* The prompts the clearing of the local store keeps (line 727).
demoPrompts(store) == { id \in presentIds(store) : IsDefaultId(id) }

\* signIn (lines 487-544) with a successful authentication: the user is set,
\* the tab subscribes, and performBackgroundSyncAfterSignIn starts: it sets
\* isSyncing and verifies the leadership (lines 551-558).
SignIn ==
    /\ UNCHANGED <<queueVars, realtimeVars>>
    /\ ~currentUser
    /\ signOutPc = "idle"
    /\ signInPc = "idle"
    /\ currentUser' = TRUE
    /\ Subscribe
    /\ lastSubEvent' = "subscribed"
    /\ isLeader' = [isLeader EXCEPT ![Self] = VerifyLeadershipResult(Self)]
    /\ signInPc' = IF VerifyLeadershipResult(Self) THEN "leader" ELSE "follower"
    /\ UNCHANGED <<now, cloud_sync_leader, lastRecordWrite, tabPhase,
                   leaderReady, leaderCheckInterval, electPc, electFromInit,
                   relPc, lastElection>>
    /\ UNCHANGED <<isOnline, localFolders, localPrompts, remoteFolders,
                   remotePrompts, lastSync>>
    /\ isSyncing' = TRUE
    /\ UNCHANGED <<offlineWorkPending, lastAction, signOutPc, autoSyncPc,
                   forceSync>>

\* performBackgroundSyncAfterSignIn in a follower tab (lines 564-627):
\* performInitialSync if the local store is empty.
SignInFollower(fetchOk, cleanupOk) ==
    /\ UNCHANGED <<leaderVars, queueVars, realtimeVars, subVars>>
    /\ signInPc = "follower"
    /\ IF presentIds(localFolders) = {} /\ presentIds(localPrompts) = {}
       THEN InitialSync(fetchOk, cleanupOk)
       ELSE UNCHANGED syncVars
    /\ signInPc' = "idle"
    /\ isSyncing' = FALSE
    /\ UNCHANGED <<offlineWorkPending, lastAction, signOutPc, autoSyncPc,
                   forceSync>>

\* detectPotentialConflicts (lines 294-323).
hasConflicts ==
    /\ presentIds(localFolders) # {} \/ userPromptIds(localPrompts) # {}
    /\ \/ lastAction = "sign-out"
       \/ offlineWorkPending
       \/ lastAction = "never"

\* performBackgroundSyncAfterSignIn in the leader tab, up to the end of its
\* upload part (lines 629-745).  probeOk: the two probing selects return
\* data.  A new account gets the local folders and user prompts uploaded;
\* otherwise performSmartMerge runs if detectPotentialConflicts says so, and
\* else the local user data is cleared.
SignInLeader(probeOk, selectOk, upsertOk) ==
    /\ UNCHANGED <<leaderVars, queueVars, realtimeVars, subVars>>
    /\ signInPc = "leader"
    /\ currentUser
    /\ UNCHANGED <<offlineWorkPending, lastAction, signOutPc, isSyncing,
                   autoSyncPc,
                   forceSync>>
    /\ IF /\ probeOk
          /\ presentIds(remoteFolders) = {}
          /\ presentIds(remotePrompts) = {}
       THEN LET folders == presentIds(localFolders)
                prompts == userPromptIds(localPrompts)
                foldersDone == folders = {} \/ upsertOk
                promptsDone == foldersDone /\ (prompts = {} \/ upsertOk)
            IN  /\ remoteFolders' =
                       IF foldersDone
                       THEN upsertUploaded(remoteFolders, localFolders, folders)
                       ELSE remoteFolders
                /\ remotePrompts' =
                       IF promptsDone
                       THEN upsertUploaded(remotePrompts, localPrompts, prompts)
                       ELSE remotePrompts
                /\ lastSync' =
                       [NoSync EXCEPT
                          !.op = "newAccountUpload",
                          !.success = promptsDone,
                          !.verified = "true",
                          !.wroteRemote = folders # {} \/ prompts # {},
                          !.uploadedFolders =
                              IF foldersDone THEN folders ELSE {},
                          !.uploadedPrompts =
                              IF promptsDone THEN prompts ELSE {}]
                /\ UNCHANGED <<currentUser, isOnline, localFolders,
                               localPrompts>>
                /\ signInPc' = "download"
       ELSE IF hasConflicts
       THEN /\ SmartMerge(selectOk, upsertOk)
            /\ signInPc' = "merged"
       ELSE /\ localFolders' = [id \in FolderIds |-> AbsentLocal]
            /\ localPrompts' =
                   [id \in PromptIds |->
                       IF id \in demoPrompts(localPrompts)
                       THEN localPrompts[id]
                       ELSE AbsentLocal]
            /\ lastSync' =
                   [NoSync EXCEPT
                      !.op = "clearLocal",
                      !.success = TRUE,
                      !.clearedFolders = presentIds(localFolders),
                      !.clearedPrompts =
                          presentIds(localPrompts) \ demoPrompts(localPrompts)]
            /\ UNCHANGED <<currentUser, isOnline, remoteFolders,
                           remotePrompts>>
            /\ signInPc' = "download"

\* performBackgroundSyncAfterSignIn after performSmartMerge has returned
\* (lines 701-712): clearOfflineWorkPending if the merge reports success.
SignInClear ==
    /\ UNCHANGED <<leaderVars, queueVars, syncVars, realtimeVars, subVars>>
    /\ signInPc = "merged"
    /\ offlineWorkPending' =
           IF lastSync.success THEN FALSE ELSE offlineWorkPending
    /\ signInPc' = "download"
    /\ UNCHANGED <<lastAction, signOutPc, isSyncing, autoSyncPc,
                   forceSync>>

\* The rest of performBackgroundSyncAfterSignIn in the leader tab (lines
\* 746-821): performInitialSync, then the metadata records the sign-in.
SignInDownload(fetchOk, cleanupOk) ==
    /\ UNCHANGED <<leaderVars, queueVars, realtimeVars, subVars>>
    /\ signInPc = "download"
    /\ InitialSync(fetchOk, cleanupOk)
    /\ lastAction' = "sign-in"
    /\ signInPc' = "idle"
    /\ isSyncing' = FALSE
    /\ UNCHANGED <<offlineWorkPending, signOutPc, autoSyncPc,
                   forceSync>>

\* syncOfflineWorkToCloud (lines 1653-1775) of a signed-in, online tab that
\* is not syncing.  selectOk: the two selects of the remote ids return data;
\* upsertOk: the batch upserts succeed; deleteOk: the remote deletes succeed
\* (deletePrompt and deleteFolder catch their errors).
SyncOfflineWorkToCloud(selectOk, upsertOk, deleteOk) ==
    /\ UNCHANGED <<queueVars, realtimeVars, subVars>>
    /\ currentUser
    /\ ~isSyncing
    /\ isOnline
    /\ isLeader' = [isLeader EXCEPT ![Self] = VerifyLeadershipResult(Self)]
    /\ UNCHANGED <<now, cloud_sync_leader, lastRecordWrite, tabPhase,
                   leaderReady, leaderCheckInterval, electPc, electFromInit,
                   relPc, lastElection>>
    /\ UNCHANGED <<currentUser, isOnline, localFolders, localPrompts>>
    /\ UNCHANGED <<lastAction, signOutPc, signInPc, isSyncing, autoSyncPc,
                   forceSync>>
    /\ IF ~VerifyLeadershipResult(Self)
       THEN /\ UNCHANGED <<remoteFolders, remotePrompts, offlineWorkPending>>
            /\ lastSync' = [NoSync EXCEPT !.op = "syncOfflineWorkToCloud",
                                          !.verified = "false",
                                          !.skipped = TRUE]
       ELSE LET cloudFolderIds == presentIds(selected(remoteFolders, selectOk))
                cloudPromptIds == presentIds(selected(remotePrompts, selectOk))
                newFolders == presentIds(localFolders) \ cloudFolderIds
                newPrompts == userPromptIds(localPrompts) \ cloudPromptIds
                deletedFolderIds == cloudFolderIds \ presentIds(localFolders)
                deletedPromptIds ==
                    cloudPromptIds \ userPromptIds(localPrompts)
                nothing == /\ newFolders = {} /\ newPrompts = {}
                           /\ deletedFolderIds = {} /\ deletedPromptIds = {}
                foldersDone == newFolders = {} \/ upsertOk
                promptsDone == foldersDone /\ (newPrompts = {} \/ upsertOk)
                afterUpload(remote, local, ids, done) ==
                    IF done THEN upsertUploaded(remote, local, ids) ELSE remote
                afterDelete(remote, ids) ==
                    IF promptsDone /\ deleteOk
                    THEN [id \in DOMAIN remote |->
                             IF id \in ids THEN AbsentRemote ELSE remote[id]]
                    ELSE remote
            IN  /\ remoteFolders' =
                       afterDelete(afterUpload(remoteFolders, localFolders,
                                               newFolders, foldersDone),
                                   deletedFolderIds)
                /\ remotePrompts' =
                       afterDelete(afterUpload(remotePrompts, localPrompts,
                                               newPrompts, promptsDone),
                                   deletedPromptIds)
                /\ offlineWorkPending' =
                       IF ~nothing /\ promptsDone
                       THEN FALSE
                       ELSE offlineWorkPending
                /\ lastSync' =
                       [NoSync EXCEPT
                          !.op = "syncOfflineWorkToCloud",
                          !.success = promptsDone,
                          !.verified = "true",
                          !.wroteRemote = ~nothing,
                          !.uploadedFolders =
                              IF foldersDone THEN newFolders ELSE {},
                          !.uploadedPrompts =
                              IF promptsDone THEN newPrompts ELSE {}]

\* signOut, steps 1 to 3 (lines 1186-1253): the settings are saved, the
\* auto-sync is stopped and the tab unsubscribes.  A sign-out while the
\* sign-in sync is still running is left out.
SignOutBegin ==
    /\ UNCHANGED <<leaderVars, queueVars, syncVars, realtimeVars>>
    /\ currentUser
    /\ signOutPc = "idle"
    /\ signInPc = "idle"
    /\ Unsubscribe
    /\ lastSubEvent' = "unsubscribed"
    /\ signOutPc' = "release"
    /\ UNCHANGED <<offlineWorkPending, lastAction, signInPc, isSyncing,
                   autoSyncPc,
                   forceSync>>

\* signOut, step 3.5 (lines 1255-1261): releaseLeadership (lines 3230-3265)
\* of this tab, its read and its remove in one step.
SignOutRelease ==
    /\ UNCHANGED <<queueVars, syncVars, realtimeVars, subVars>>
    /\ signOutPc = "release"
    /\ IF isLeader[Self]
       THEN /\ IF cloud_sync_leader # NoLeader
                     /\ cloud_sync_leader.tabId = Self
               THEN /\ cloud_sync_leader' = NoLeader
                    /\ lastRecordWrite' = now
               ELSE UNCHANGED <<cloud_sync_leader, lastRecordWrite>>
            /\ isLeader' = [isLeader EXCEPT ![Self] = FALSE]
            /\ leaderCheckInterval' =
                   [leaderCheckInterval EXCEPT ![Self] = FALSE]
       ELSE UNCHANGED <<cloud_sync_leader, lastRecordWrite, isLeader,
                        leaderCheckInterval>>
    /\ UNCHANGED <<now, tabPhase, leaderReady, electPc, electFromInit, relPc,
                   lastElection>>
    /\ signOutPc' = "finish"
    /\ UNCHANGED <<offlineWorkPending, lastAction, signInPc, isSyncing,
                   autoSyncPc,
                   forceSync>>

\* signOut, steps 4 to 7 and its end (lines 1263-1417): the session ends,
\* the local store is emptied, the metadata records the sign-out and resets
\* the offline-work flag, and this.currentUser becomes null.
SignOutFinish ==
    /\ UNCHANGED <<leaderVars, queueVars, realtimeVars>>
    /\ signOutPc = "finish"
    /\ localFolders' = [id \in FolderIds |-> AbsentLocal]
    /\ localPrompts' = [id \in PromptIds |-> AbsentLocal]
    /\ lastAction' = "sign-out"
    /\ offlineWorkPending' = FALSE
    /\ currentUser' = FALSE
    /\ lastSync' = [NoSync EXCEPT !.op = "signOut", !.success = TRUE]
    /\ signOutPc' = "idle"
    /\ lastSubEvent' = "signed out"
    /\ UNCHANGED <<isOnline, remoteFolders, remotePrompts, signInPc,
                   isSyncing, autoSyncPc,
                   forceSync>>
    /\ UNCHANGED <<subNow, subscription, reconnectTimer, reconnectTimers,
                   nextTimerId, oldCallbacks, healPending>>

\* The tabs after init: their elections are over, one of them leads with a
\* fresh record, and nobody is signed in.
SessionLeaderInit ==
    /\ now = 0
    /\ \E l \in Tabs :
          /\ cloud_sync_leader = LeaderInfo(l, 0)
          /\ isLeader = [p \in Tabs |-> p = l]
    /\ lastRecordWrite = 0
    /\ tabPhase = [p \in Tabs |-> "running"]
    /\ leaderReady = [p \in Tabs |-> TRUE]
    /\ leaderCheckInterval = [p \in Tabs |-> TRUE]
    /\ electPc = [p \in Tabs |-> "idle"]
    /\ electFromInit = [p \in Tabs |-> FALSE]
    /\ relPc = [p \in Tabs |-> "idle"]
    /\ lastElection = [p \in Tabs |-> "none"]

\* Nobody is signed in; the local store holds what the user made before
\* signing in, the remote store what the account holds.
OfflineInit ==
    /\ currentUser = FALSE
    /\ isOnline = TRUE
    /\ localFolders \in
           [FolderIds -> {AbsentLocal,
                          [present |-> TRUE, createdAt |-> 100,
                           updatedAt |-> 100]}]
    /\ remoteFolders \in
           [FolderIds -> {AbsentRemote,
                          [present |-> TRUE, created_at |-> 50,
                           updated_at |-> 50]}]
    /\ localPrompts \in
           { f \in [PromptIds -> PromptRecordInputs \cup {SeedPrompt}] :
                 /\ f["p1"] \in PromptRecordInputs
                 /\ f["default-001"] = SeedPrompt }
    /\ remotePrompts \in
           { f \in [PromptIds -> PromptRowInputs \cup {SeedRow}] :
                 /\ f["p1"] \in PromptRowInputs
                 /\ f["default-001"] \in {AbsentRemote, SeedRow} }
    /\ lastSync = NoSync

OfflineNext ==
    \/ MarkOfflineWorkPending
    \/ SignIn
    \/ \E fetchOk, cleanupOk \in BOOLEAN : SignInFollower(fetchOk, cleanupOk)
    \/ \E probeOk, selectOk, upsertOk \in BOOLEAN :
          SignInLeader(probeOk, selectOk, upsertOk)
    \/ SignInClear
    \/ \E fetchOk, cleanupOk \in BOOLEAN : SignInDownload(fetchOk, cleanupOk)
    \/ \E selectOk, upsertOk, deleteOk \in BOOLEAN :
          SyncOfflineWorkToCloud(selectOk, upsertOk, deleteOk)
    \/ SignOutBegin
    \/ SignOutRelease
    \/ SignOutFinish

\* The sync metadata the tab finds in chrome.storage.local: that of a fresh
\* profile, or that of an earlier session that began with a sign-in (line
\* 796) and ended without signOut (the session expired, lines 146-159).
OfflineMetadataInit ==
    /\ offlineWorkPending = FALSE
    /\ lastAction \in {"never", "sign-in"}
    /\ signOutPc = "idle"
    /\ signInPc = "idle"
    /\ isSyncing = FALSE
    /\ autoSyncPc = "idle"
    /\ forceSync = NoForceSync

OfflineSpecInit ==
    /\ SessionLeaderInit /\ QueueInit /\ OfflineInit
    /\ RealtimeIdle /\ OfflineMetadataInit /\ SubIdle

OfflineSpec == OfflineSpecInit /\ [][OfflineNext]_vars

\* A tab after init with nobody signed in and no subscription; the account
\* holds one folder, of which the local store holds a newer copy.
SubscriptionInit ==
    /\ currentUser = FALSE
    /\ isOnline = TRUE
    /\ localFolders =
           [id \in FolderIds |->
               [present |-> TRUE, createdAt |-> 100, updatedAt |-> 100]]
    /\ remoteFolders =
           [id \in FolderIds |->
               [present |-> TRUE, created_at |-> 50, updated_at |-> 50]]
    /\ localPrompts =
           [id \in PromptIds |->
               IF IsDefaultId(id) THEN SeedPrompt ELSE AbsentLocal]
    /\ remotePrompts = [id \in PromptIds |-> AbsentRemote]
    /\ lastSync = NoSync

\* The sign-in sync runs here with all its remote calls succeeding.
SubscriptionNext ==
    \/ SignIn
    \/ SignInFollower(TRUE, TRUE)
    \/ SignInLeader(TRUE, TRUE, TRUE)
    \/ SignInClear
    \/ SignInDownload(TRUE, TRUE)
    \/ SignOutBegin
    \/ SignOutRelease
    \/ SignOutFinish
    \/ \E t \in SubTables, status \in SubStatuses, fromCurrent \in BOOLEAN :
          StatusArrives(t, status, fromCurrent)
    \/ ReconnectTimerFires
    \/ SubAdvance
    \/ VisibilityHidden
    \/ VisibilityVisible

SubscriptionSpecInit ==
    /\ SessionLeaderInit /\ QueueInit /\ SubscriptionInit
    /\ RealtimeIdle /\ OfflineIdle /\ SubIdle

\* The timer callbacks get to run and time passes.
SubscriptionSpec ==
    /\ SubscriptionSpecInit
    /\ [][SubscriptionNext]_vars
    /\ WF_vars(ReconnectTimerFires)
    /\ WF_vars(SubAdvance)

(***************************************************************************)
(* The periodic sync of one tab (performAutoSync with its drain of the     *)
(* retry queue), the upload of offline work and the live sync, called      *)
(* whether or not somebody is signed in and whether or not the tab leads.  *)
(***************************************************************************)
\* A variant of the check that lets a tab that is not the leader go on.
autoSyncMayRun_NoCheck(userInitiated, verified) == TRUE

\* performAutoSync's leadership check (lines 1567-1573): a sync that the
\* user did not ask for goes on only if verifyLeadershipForSync says true.
autoSyncMayRun(userInitiated, verified) == userInitiated \/ verified

\* performAutoSync (lines 1554-1587) up to the first replay of
\* processRetryQueue: the guards, the leadership check, the isSyncing test;
\* then isSyncing is set and processRetryQueue copies and clears the queue.
\* A call that passes the test while an earlier call still replays has its
\* own copy (line 1508): its items are put behind the ones still to replay.
AutoSync(userInitiated) ==
    /\ UNCHANGED <<syncVars_butLastSync, realtimeVars, subVars>>
    /\ UNCHANGED <<offlineWorkPending, lastAction, signOutPc, signInPc>>
    /\ UNCHANGED <<now, cloud_sync_leader, lastRecordWrite, tabPhase,
                   leaderReady, leaderCheckInterval, electPc, electFromInit,
                   relPc, lastElection>>
    /\ UNCHANGED addCalls
    /\ IF ~currentUser \/ ~isOnline
       THEN /\ UNCHANGED <<isLeader, isSyncing, autoSyncPc, retryQueue,
                           itemsToRetry, draining, lastQueueEvent>>
            /\ lastSync' = [NoSync EXCEPT !.op = "performAutoSync"]
       ELSE IF ~autoSyncMayRun(userInitiated, VerifyLeadershipResult(Self))
       THEN /\ isLeader' = [isLeader EXCEPT ![Self] = FALSE]
            /\ UNCHANGED <<isSyncing, autoSyncPc, retryQueue, itemsToRetry,
                           draining, lastQueueEvent>>
            /\ lastSync' = [NoSync EXCEPT !.op = "performAutoSync",
                                          !.verified = "false",
                                          !.skipped = TRUE]
       ELSE /\ isLeader' =
                   IF userInitiated
                   THEN isLeader
                   ELSE [isLeader EXCEPT ![Self] = VerifyLeadershipResult(Self)]
            /\ lastSync' =
                   [NoSync EXCEPT
                      !.op = "performAutoSync",
                      !.verified = IF userInitiated THEN "none"
                                   ELSE IF VerifyLeadershipResult(Self)
                                   THEN "true" ELSE "false"]
            /\ IF isSyncing
               THEN UNCHANGED <<isSyncing, autoSyncPc, retryQueue,
                                itemsToRetry, draining, lastQueueEvent>>
               ELSE /\ isSyncing' = TRUE
                    /\ autoSyncPc' = "drain"
                    /\ IF Len(retryQueue) > 0
                       THEN /\ itemsToRetry' = itemsToRetry \o retryQueue
                            /\ retryQueue' = <<>>
                            /\ draining' = TRUE
                            /\ lastQueueEvent' = "drain_started"
                       ELSE UNCHANGED <<retryQueue, itemsToRetry, draining,
                                        lastQueueEvent>>

\* A call of performAutoSync by the scheduler (or by a caller other than
\* forceSync).
PerformAutoSync(userInitiated) ==
    /\ AutoSync(userInitiated)
    /\ UNCHANGED forceSync

\* The end of performAutoSync (lines 1595-1616), once processRetryQueue has
\* returned: the settings are backed up and isSyncing is reset.  A forceSync
\* that waits in Promise.race (line 1635) gets the result and returns
\* success (lines 1637-1642).
PerformAutoSyncFinish ==
    /\ forceSync' =
           IF forceSync.pc = "racing"
           THEN [forceSync EXCEPT !.pc = "returned", !.result = "success"]
           ELSE forceSync
    /\ UNCHANGED <<leaderVars, queueVars, syncVars_butLastSync, realtimeVars,
                   subVars>>
    /\ autoSyncPc = "drain"
    /\ ~draining
    /\ isSyncing' = FALSE
    /\ autoSyncPc' = "idle"
    /\ lastSync' = [NoSync EXCEPT !.op = "performAutoSyncEnd",
                                  !.success = TRUE]
    /\ UNCHANGED <<offlineWorkPending, lastAction, signOutPc, signInPc>>

\* syncOfflineWorkToCloud returns at its first tests (lines 1656-1664):
\* nobody is signed in, a sync is running, or the browser is offline.
SyncOfflineWorkReturns ==
    /\ UNCHANGED <<leaderVars, queueVars, syncVars_butLastSync, realtimeVars,
                   offlineVars, subVars>>
    /\ ~currentUser \/ isSyncing \/ ~isOnline
    /\ lastSync' = [NoSync EXCEPT !.op = "syncOfflineWorkToCloud",
                                  !.skipped = TRUE]

\* The live sync functions.
LiveSyncOps == {"addFolder", "addPrompt", "deleteFolder", "deletePrompt"}

\* addFolder, addPrompt, deleteFolder or deletePrompt returns at its guard.
LiveSyncReturns(op) ==
    /\ UNCHANGED <<leaderVars, queueVars, syncVars_butLastSync, realtimeVars,
                   offlineVars, subVars>>
    /\ ~liveSyncAllowed(currentUser, isOnline)
    /\ lastSync' = [NoSync EXCEPT !.op = op]

\* The failed writes that callers hand to addToRetryQueue here.
AutoSyncQueueInputs ==
    { k \in QueueInputs : k.id = 1 /\ k.storeName = "prompts" }

\* The number of calls of addToRetryQueue next to the periodic sync.
MaxAutoSyncAdds == 2

\* addToRetryQueue (lines 1467-1496), called at most MaxAutoSyncAdds times.
AutoSyncAddToRetryQueue(operation, storeName, id) ==
    /\ addCalls < MaxAutoSyncAdds
    /\ AddToRetryQueue(operation, storeName, id)

\* The prompts that the user adds and deletes here: the user's own.
AutoSyncPromptIds == { id \in PromptIds : ~IsDefaultId(id) }

\* A tab after init: its session was restored (line 162) and it subscribed,
\* or nobody is signed in.  The local store holds a folder and a user
\* prompt that the account does not hold, and the seed prompt.
AutoSyncInit ==
    /\ currentUser \in BOOLEAN
    /\ isOnline = TRUE
    /\ localFolders =
           [id \in FolderIds |->
               [present |-> TRUE, createdAt |-> 100, updatedAt |-> 100]]
    /\ remoteFolders = [id \in FolderIds |-> AbsentRemote]
    /\ localPrompts =
           [id \in PromptIds |->
               IF IsDefaultId(id)
               THEN SeedPrompt
               ELSE [present |-> TRUE, createdAt |-> 50, updatedAt |-> Null]]
    /\ remotePrompts = [id \in PromptIds |-> AbsentRemote]
    /\ lastSync = NoSync
    /\ subNow = 0
    /\ subscription =
           [t \in SubTables |-> IF currentUser THEN "subscribe" ELSE "none"]
    /\ reconnectTimer = [t \in SubTables |-> Null]
    /\ reconnectTimers = {}
    /\ nextTimerId = 1
    /\ oldCallbacks = {}
    /\ healPending = [t \in SubTables |-> FALSE]
    /\ lastSubEvent = "none"

AutoSyncNext ==
    \/ \E k \in AutoSyncQueueInputs :
          AutoSyncAddToRetryQueue(k.operation, k.storeName, k.id)
    \/ \E userInitiated \in BOOLEAN : PerformAutoSync(userInitiated)
    \/ ReplaySucceeds
    \/ ReplayFails
    \/ ReplayDeleteFails
    \/ PerformAutoSyncFinish
    \/ \E selectOk, upsertOk, deleteOk \in BOOLEAN :
          SyncOfflineWorkToCloud(selectOk, upsertOk, deleteOk)
    \/ SyncOfflineWorkReturns
    \/ \E fetchOk, cleanupOk \in BOOLEAN : PerformInitialSync(fetchOk, cleanupOk)
    \/ \E id \in FolderIds, ok \in BOOLEAN : AddFolder(id, ok)
    \/ \E id \in AutoSyncPromptIds, ok \in BOOLEAN : AddPrompt(id, ok)
    \/ \E id \in FolderIds, ok \in BOOLEAN : DeleteFolder(id, ok)
    \/ \E id \in AutoSyncPromptIds, ok \in BOOLEAN : DeletePrompt(id, ok)
    \/ \E op \in LiveSyncOps : LiveSyncReturns(op)

AutoSyncSpecInit ==
    /\ SessionLeaderInit /\ QueueInit /\ AutoSyncInit
    /\ RealtimeIdle /\ OfflineIdle

AutoSyncSpec == AutoSyncSpecInit /\ [][AutoSyncNext]_vars

(***************************************************************************)
(* The downloads of one tab: the initial sync, the smart merge and the     *)
(* realtime handlers, each storing remote rows in the local store.         *)
(***************************************************************************)
DownloadNext ==
    \/ \E fetchOk, cleanupOk \in BOOLEAN : PerformInitialSync(fetchOk, cleanupOk)
    \/ \E selectOk, upsertOk \in BOOLEAN : PerformSmartMerge(selectOk, upsertOk)
    \/ \E id \in FolderIds : HandleRealtimeFolderChange(id)
    \/ \E id \in PromptIds : HandleRealtimePromptChange(id)

DownloadSpecInit == RealtimeSpecInit

DownloadSpec == DownloadSpecInit /\ [][DownloadNext]_vars

(***************************************************************************)
(* forceSync: a user-initiated performAutoSync raced against a timer.      *)
(***************************************************************************)
\* A variant of the timer that never fires.
timerDue_Never(t, due) == FALSE

\* A timer set for the time due may fire at the time t: at its due time or
\* later, never earlier (setTimeout, line 1631).
timerDue(t, due) == t >= due

\* forceSync (lines 1623-1635) up to the await of Promise.race: the timer is
\* set and performAutoSync(true) runs to its first await.  A sync that
\* returned at one of its guards has resolved its promise already, and
\* forceSync returns that failure (line 1644).  The timer is set only while
\* its due time lies within the clock's range.
ForceSync ==
    /\ forceSync.pc # "racing"
    /\ now + FORCE_SYNC_TIMEOUT <= MaxClockTicks * LEADER_HEARTBEAT_INTERVAL
    /\ AutoSync(TRUE)
    /\ forceSync' =
           IF autoSyncPc' = "drain" /\ autoSyncPc = "idle"
           THEN [pc |-> "racing", due |-> now + FORCE_SYNC_TIMEOUT,
                 result |-> "none"]
           ELSE [pc |-> "returned", due |-> now + FORCE_SYNC_TIMEOUT,
                 result |-> "failed"]

\* The timer of forceSync fires while performAutoSync is still in flight:
\* Promise.race resolves with {success: false, error: 'Sync timed out'}
\* (lines 1630-1635) and forceSync returns it (line 1644).  Nothing cancels
\* the sync.
ForceSyncTimeout ==
    /\ UNCHANGED <<leaderVars, queueVars, syncVars, realtimeVars, subVars>>
    /\ UNCHANGED <<offlineWorkPending, lastAction, signOutPc, signInPc,
                   isSyncing, autoSyncPc>>
    /\ forceSync.pc = "racing"
    /\ timerDue(now, forceSync.due)
    /\ forceSync' = [forceSync EXCEPT !.pc = "returned", !.result = "timeout"]

ForceSyncNext ==
    \/ AdvanceTime
    \/ \E k \in AutoSyncQueueInputs :
          AutoSyncAddToRetryQueue(k.operation, k.storeName, k.id)
    \/ ForceSync
    \/ \E userInitiated \in BOOLEAN : PerformAutoSync(userInitiated)
    \/ ReplaySucceeds
    \/ ReplayFails
    \/ ReplayDeleteFails
    \/ PerformAutoSyncFinish
    \/ ForceSyncTimeout

ForceSyncSpecInit == AutoSyncSpecInit

\* Time passes and a due timer fires; the remote calls of a drain may take
\* any time, or never return.
ForceSyncSpec ==
    /\ ForceSyncSpecInit
    /\ [][ForceSyncNext]_vars
    /\ WF_vars(AdvanceTime)
    /\ WF_vars(ForceSyncTimeout)

(***************************************************************************)
(* One tab alone: its heartbeat and elections, and the user signing out    *)
(* and in again.                                                           *)
(***************************************************************************)
\* The tab Self after init, the only one running: it won its election, its
\* heartbeat interval runs; the other tabs are closed.
SoleLeaderInit ==
    /\ now = 0
    /\ cloud_sync_leader = LeaderInfo(Self, 0)
    /\ lastRecordWrite = 0
    /\ tabPhase = [p \in Tabs |-> IF p = Self THEN "running" ELSE "closed"]
    /\ isLeader = [p \in Tabs |-> p = Self]
    /\ leaderReady = [p \in Tabs |-> p = Self]
    /\ leaderCheckInterval = [p \in Tabs |-> p = Self]
    /\ electPc = [p \in Tabs |-> "idle"]
    /\ electFromInit = [p \in Tabs |-> FALSE]
    /\ relPc = [p \in Tabs |-> "idle"]
    /\ lastElection = [p \in Tabs |-> IF p = Self THEN "won" ELSE "none"]

SoleTabNext ==
    \/ AdvanceTime
    \/ TryBecomeLeaderRead(Self)
    \/ BecomeLeaderWrite(Self)
    \/ BecomeLeaderVerify(Self)
    \/ CheckLeaderStatusHeartbeat(Self)
    \/ CheckLeaderStatusElect(Self)
    \/ SignOutBegin
    \/ SignOutRelease
    \/ SignOutFinish
    \/ SignIn
    \/ \E fetchOk, cleanupOk \in BOOLEAN : SignInFollower(fetchOk, cleanupOk)
    \/ \E probeOk, selectOk, upsertOk \in BOOLEAN :
          SignInLeader(probeOk, selectOk, upsertOk)
    \/ SignInClear
    \/ \E fetchOk, cleanupOk \in BOOLEAN : SignInDownload(fetchOk, cleanupOk)

SoleTabSpecInit ==
    /\ SoleLeaderInit /\ QueueInit /\ AutoSyncInit
    /\ RealtimeIdle /\ OfflineIdle

\* The heartbeat interval of the tab keeps firing while it is set
\* (setInterval every 5 s), its election attempts run to their end, and the
\* steps of a sign-in sync and of a sign-out complete.
SoleTabFairSpec ==
    /\ SoleTabSpecInit
    /\ [][SoleTabNext]_vars
    /\ WF_vars(CheckLeaderStatusHeartbeat(Self))
    /\ WF_vars(CheckLeaderStatusElect(Self))
    /\ WF_vars(TryBecomeLeaderRead(Self))
    /\ WF_vars(BecomeLeaderWrite(Self))
    /\ WF_vars(BecomeLeaderVerify(Self))
    /\ WF_vars(SignOutRelease)
    /\ WF_vars(SignOutFinish)
    /\ WF_vars(\E fetchOk, cleanupOk \in BOOLEAN :
                  SignInFollower(fetchOk, cleanupOk))
    /\ WF_vars(\E probeOk, selectOk, upsertOk \in BOOLEAN :
                  SignInLeader(probeOk, selectOk, upsertOk))
    /\ WF_vars(SignInClear)
    /\ WF_vars(\E fetchOk, cleanupOk \in BOOLEAN :
                  SignInDownload(fetchOk, cleanupOk))

(***************************************************************************)
(* The periodic sync of one tab next to its sign-outs and sign-ins: a      *)
(* performAutoSync that is in flight goes on while the user signs out and  *)
(* in again, and the sign-in sync runs beside it.                          *)
(***************************************************************************)
SessionSyncNext ==
    \/ \E k \in AutoSyncQueueInputs :
          AutoSyncAddToRetryQueue(k.operation, k.storeName, k.id)
    \/ \E userInitiated \in BOOLEAN : PerformAutoSync(userInitiated)
    \/ ReplaySucceeds
    \/ ReplayFails
    \/ ReplayDeleteFails
    \/ PerformAutoSyncFinish
    \/ SignOutBegin
    \/ SignOutRelease
    \/ SignOutFinish
    \/ SignIn
    \/ \E fetchOk, cleanupOk \in BOOLEAN : SignInFollower(fetchOk, cleanupOk)
    \/ \E probeOk, selectOk, upsertOk \in BOOLEAN :
          SignInLeader(probeOk, selectOk, upsertOk)
    \/ SignInClear
    \/ \E fetchOk, cleanupOk \in BOOLEAN : SignInDownload(fetchOk, cleanupOk)

SessionSyncSpecInit == AutoSyncSpecInit

SessionSyncSpec == SessionSyncSpecInit /\ [][SessionSyncNext]_vars

(***************************************************************************)
(* The claims.                                                             *)
(***************************************************************************)
LeaderCount == Cardinality({p \in Tabs : isLeader[p]})

ElectionsIdle == \A p \in Tabs : electPc[p] = "idle" /\ relPc[p] = "idle"

\* C1: in every reachable state at most one tab has isLeader = TRUE, under
\* all interleavings of the election steps, the heartbeat ticks and
\* releaseLeadership.
C1_AtMostOneLeader == LeaderCount <= 1

\* C2: at the end of a quiescent period (no election or release in flight
\* and no write to the Leader Record for longer than the lease timeout) at
\* most one tab has isLeader = TRUE.
C2_QuiescentAtMostOneLeader ==
    (ElectionsIdle /\ (now - lastRecordWrite) > LEADER_TIMEOUT)
        => LeaderCount <= 1

\* C4: after any sequence of addToRetryQueue and processRetryQueue calls,
\* including adds made while a drain is suspended, the length of the retry
\* queue never exceeds the cap.
C4_QueueWithinCap == Len(retryQueue) <= MAX_RETRY_QUEUE_SIZE

\* C5: the retry queue never holds two entries with the same
\* (table, record id, operation kind).
C5_NoDuplicateEntries ==
    \A i, j \in 1 .. Len(retryQueue) :
        (i # j) =>
            ~Equivalent(retryQueue[i], retryQueue[j].operation,
                        retryQueue[j].storeName, retryQueue[j].id)

\* C3: every remote write to folders or prompts is preceded, in the same
\* operation, by a verifyLeadershipForSync call of the tab that returned
\* true.
C3_RemoteWriteVerified == lastSync.wroteRemote => lastSync.verified = "true"

\* C6: an item whose replay has failed as many times as the retry cap is
\* dropped at that failure: no entry of the retry queue has failed
\* MAX_RETRIES_PER_ITEM times.
C6_DroppedAtRetryCap ==
    \A i \in 1 .. Len(retryQueue) :
        retryQueue[i].failed < MAX_RETRIES_PER_ITEM

\* C6, its case: a replay has just failed for the last allowed time and the
\* item was not put back.
C6_Witness ==
    /\ lastQueueEvent = "replay_dropped"
    /\ C6_DroppedAtRetryCap

LocalStamp(record) == JsOr(record.updatedAt, record.createdAt)

RemoteStamp(row) == JsOr(row.updated_at, row.created_at)

\* Whether a completed smart merge resolved the record id, present on both
\* sides, by its timestamps: uploaded iff local is newer, downloaded iff
\* remote is newer.
ResolvedByTimestamp(record, row, uploaded, downloaded) ==
    (record.present /\ row.present /\ LocalStamp(record) # Null)
        => /\ uploaded <=> LocalStamp(record) > RemoteStamp(row)
           /\ downloaded <=> RemoteStamp(row) > LocalStamp(record)

\* C8: for every record present on both sides, smart merge uploads the
\* local version iff its timestamp is greater, downloads the remote version
\* iff the remote timestamp is greater, and does neither when they are equal.
C8_MergeNewerSideWins ==
    [][( /\ \E upsertOk \in BOOLEAN : PerformSmartMerge(TRUE, upsertOk)
         /\ lastSync'.success )
       => /\ \A id \in FolderIds :
                 ResolvedByTimestamp(localFolders[id], remoteFolders[id],
                                     id \in lastSync'.uploadedFolders,
                                     id \in lastSync'.downloadedFolders)
          /\ \A id \in PromptIds :
                 ~IsDefaultId(id) =>
                     ResolvedByTimestamp(localPrompts[id], remotePrompts[id],
                                         id \in lastSync'.uploadedPrompts,
                                         id \in lastSync'.downloadedPrompts)]_vars

\* C9: a successful performInitialSync run that directly follows a
\* successful run downloads no folder and no prompt and leaves the local
\* store unchanged.
C9_InitialSyncIdempotent ==
    [][( /\ lastSync.op = "performInitialSync"
         /\ lastSync.success
         /\ \E fetchOk, cleanupOk \in BOOLEAN :
                PerformInitialSync(fetchOk, cleanupOk)
         /\ lastSync'.success )
       => /\ lastSync'.downloadedFolders = {}
          /\ lastSync'.downloadedPrompts = {}
          /\ localFolders' = localFolders
          /\ localPrompts' = localPrompts]_vars

\* C9, its case: a second successful run has followed a run that downloaded
\* records.
C9_Witness ==
    /\ lastSync.op = "performInitialSync"
    /\ lastSync.success
    /\ lastSync.repeat
    /\ lastSync.prevDownloads > 0
    /\ lastSync.downloadedFolders = {}
    /\ lastSync.downloadedPrompts = {}

\* C10: a remote-change INSERT/UPDATE event never overwrites a local copy
\* whose timestamp is greater than the updated_at of the event's record.
C10_RealtimeKeepsNewerLocal ==
    [][/\ \A id \in FolderIds :
             ( /\ HandleRealtimeFolderChange(id)
               /\ localFolders[id].present
               /\ remoteFolders[id].present
               /\ LocalStamp(localFolders[id]) > remoteFolders[id].updated_at )
             => localFolders'[id] = localFolders[id]
       /\ \A id \in PromptIds :
             ( /\ HandleRealtimePromptChange(id)
               /\ localPrompts[id].present
               /\ remotePrompts[id].present
               /\ LocalStamp(localPrompts[id]) > remotePrompts[id].updated_at )
             => localPrompts'[id] = localPrompts[id]]_vars

NotUploaded(local, remote) ==
    { id \in DOMAIN local :
          /\ local[id].present
          /\ ~IsDefaultId(id)
          /\ ~(/\ remote[id].present
               /\ RemoteStamp(remote[id]) >= LocalStamp(local[id])) }

\* C12: offlineWorkPending goes from true to false only in a step of an
\* operation that reports success and after which the remote store holds
\* the local work the step started from; no other step clears the flag.
C12_ClearedOnlyAfterUpload ==
    [][(offlineWorkPending /\ ~offlineWorkPending') =>
           /\ lastSync'.op \in {"syncOfflineWorkToCloud", "performSmartMerge"}
           /\ lastSync'.success
           /\ NotUploaded(localFolders, remoteFolders') = {}
           /\ NotUploaded(localPrompts, remotePrompts') = {}]_vars


\* C13: no remote upsert carries a record whose id starts with "default-":
\* the prompts an operation has upserted never include such an id.
C13_NoDefaultUpsert ==
    \A id \in lastSync.uploadedPrompts : ~IsDefaultId(id)

\* C14: performInitialSync and performSmartMerge never write a remote record
\* whose id starts with "default-" into the local store.
C14_NoDefaultMerged ==
    lastSync.op \in {"performInitialSync", "performSmartMerge"}
        => \A id \in lastSync.downloadedPrompts : ~IsDefaultId(id)


\* C15: while nobody is signed in, no step creates a subscription: a
\* reconnect timer that fires and a status that arrives leave both
\* subscription fields as they are, and no reconnect goes through.
C15_NoReconnectAfterSignOut ==
    [][(~currentUser /\ ~currentUser') =>
           /\ lastSubEvent' # "reconnected"
           /\ \A t \in SubTables :
                  subscription'[t] \in {"none", subscription[t]}]_vars

\* A reconnect timer has fired after the sign-out and its reconnect
\* returned at once.
C15_Witness ==
    /\ ~currentUser
    /\ lastAction = "sign-out"
    /\ lastSubEvent = "reconnect skipped"

\* C16: while the user stays signed in and the tab stays subscribed, a
\* failure status of the current folders or prompts subscription is
\* eventually followed by a reconnection attempt for that table.
C16_SelfHeals ==
    \A t \in SubTables : healPending[t] ~> ~healPending[t]


\* The record names the closed tab p and is older than the lease.
ExpiredRecordOf(p) ==
    /\ tabPhase[p] = "closed"
    /\ cloud_sync_leader # NoLeader
    /\ cloud_sync_leader.tabId = p
    /\ (now - cloud_sync_leader.timestamp) > LEADER_TIMEOUT

\* The record names a closed tab other than p and its lease still runs.
LiveRecordOfAnotherClosed(p) ==
    /\ cloud_sync_leader # NoLeader
    /\ cloud_sync_leader.tabId \in Tabs \ {p}
    /\ tabPhase[cloud_sync_leader.tabId] = "closed"
    /\ (now - cloud_sync_leader.timestamp) <= LEADER_TIMEOUT

\* C17: when a leader has stopped without removing its record and the
\* record is older than 15 s, a tab that keeps running its heartbeat ticks
\* sees some other tab than the stopped one become leader, unless a tab
\* that took the record over has stopped in turn and its lease still runs.
C17_ExpiredLeaseReclaimed ==
    \A p \in Tabs : \A q \in Tabs \ {p} :
        (/\ ExpiredRecordOf(p)
         /\ tabPhase[q] = "running"
         /\ leaderCheckInterval[q])
            ~> (\/ \E r \in Tabs \ {p} : isLeader[r]
                \/ tabPhase[q] # "running"
                \/ ~leaderCheckInterval[q]
                \/ LiveRecordOfAnotherClosed(p))

\* A follower has read the expired record of a closed leader and goes on to
\* take the leadership over.
C17_Witness ==
    \E p \in Tabs : \E q \in Tabs \ {p} :
        /\ ExpiredRecordOf(p)
        /\ ~isLeader[q]
        /\ leaderReady[q]
        /\ electPc[q] = "write"

\* C18: the Leader Record is removed only by a releaseLeadership whose tab
\* the record names at the moment of the removal.
C18_RemovesOnlyOwnRecord ==
    [][(cloud_sync_leader # NoLeader /\ cloud_sync_leader' = NoLeader) =>
           \E p \in Tabs : /\ relPc[p] = "remove"
                            /\ relPc'[p] = "idle"
                            /\ cloud_sync_leader.tabId = p]_vars

\* C19: a heartbeat tick of a tab with isLeader, taken while the record
\* names another tab whose lease is live, makes the tab a follower.
C19_LeaderStepsDownOnTick ==
    [][\A p \in Tabs :
           (/\ isLeader[p]
            /\ electPc[p] = "idle"
            /\ relPc[p] = "idle"
            /\ cloud_sync_leader # NoLeader
            /\ cloud_sync_leader.tabId # p
            /\ (now - cloud_sync_leader.timestamp) <= LEADER_TIMEOUT
            /\ cloud_sync_leader' = LeaderInfo(p, now))
               => ~isLeader'[p]]_vars

\* C20: a call of addToRetryQueue with an item equivalent to an entry of
\* the queue leaves that entry in the queue as it was: the queue stays as
\* it is, or loses only another entry at its head.
C20_EquivalentEntryUntouched ==
    [][(/\ addCalls' = addCalls + 1
        /\ lastQueueEvent' \in {"skipped", "evicted_skipped",
                                "evicted_replaced"})
           => retryQueue' \in {retryQueue, Tail(retryQueue)}]_vars

\* C21: when the remote write of addFolder, addPrompt, deleteFolder or
\* deletePrompt fails, the retry queue afterwards holds an item for that
\* operation and table with retries = 0.
C21_FailedLiveWriteQueued ==
    [][/\ \A id \in FolderIds :
             /\ AddFolder(id, FALSE)
                    => \E i \in 1 .. Len(retryQueue') :
                           /\ retryQueue'[i].operation = "upsert"
                           /\ retryQueue'[i].storeName = "folders"
                           /\ retryQueue'[i].retries = 0
             /\ DeleteFolder(id, FALSE)
                    => \E i \in 1 .. Len(retryQueue') :
                           /\ retryQueue'[i].operation = "delete"
                           /\ retryQueue'[i].storeName = "folders"
                           /\ retryQueue'[i].retries = 0
       /\ \A id \in PromptIds :
             /\ AddPrompt(id, FALSE)
                    => \E i \in 1 .. Len(retryQueue') :
                           /\ retryQueue'[i].operation = "upsert"
                           /\ retryQueue'[i].storeName = "prompts"
                           /\ retryQueue'[i].retries = 0
             /\ DeletePrompt(id, FALSE)
                    => \E i \in 1 .. Len(retryQueue') :
                           /\ retryQueue'[i].operation = "delete"
                           /\ retryQueue'[i].storeName = "prompts"
                           /\ retryQueue'[i].retries = 0]_vars

\* C22: performInitialSync issues no remote upsert and no remote delete and
\* leaves both remote tables as they are.
C22_InitialSyncDownloadOnly ==
    [][(\E fetchOk, cleanupOk \in BOOLEAN :
            PerformInitialSync(fetchOk, cleanupOk))
           => /\ ~lastSync'.wroteRemote
              /\ remoteFolders' = remoteFolders
              /\ remotePrompts' = remotePrompts]_vars

\* The remote account holds a folder or a prompt.
RemoteHasData ==
    presentIds(remoteFolders) # {} \/ presentIds(remotePrompts) # {}

C24_NewAccountUploadsAll ==
    [][( /\ \E selectOk, upsertOk \in BOOLEAN :
                SignInLeader(TRUE, selectOk, upsertOk)
         /\ ~RemoteHasData )
       => /\ localFolders' = localFolders
          /\ localPrompts' = localPrompts
          /\ (\E selectOk \in BOOLEAN : SignInLeader(TRUE, selectOk, TRUE))
                 => /\ \A id \in FolderIds :
                           localFolders[id].present
                               => remoteFolders'[id]
                                      = localToCloud(localFolders[id])
                    /\ \A id \in PromptIds :
                           (localPrompts[id].present /\ ~IsDefaultId(id))
                               => remotePrompts'[id]
                                      = localToCloud(localPrompts[id])]_vars

\* C24, its case: a new account has just received the local folder and the
\* local user prompt, and the local store still holds them.
C24_Witness ==
    /\ signInPc = "download"
    /\ lastSync.op = "newAccountUpload"
    /\ lastSync.success
    /\ lastSync.uploadedFolders # {}
    /\ lastSync.uploadedPrompts # {}
    /\ \A id \in lastSync.uploadedFolders :
           localFolders[id].present /\ remoteFolders[id].present
    /\ \A id \in lastSync.uploadedPrompts :
           localPrompts[id].present /\ remotePrompts[id].present

\* The record is absent, older than the 15 s lease timeout, or names tab p.
MayClaim(p) ==
    \/ cloud_sync_leader = NoLeader
    \/ (now - cloud_sync_leader.timestamp) > 15000
    \/ cloud_sync_leader.tabId = p

\* C25: the step of tryBecomeLeader that reads the record goes on to the
\* write only if the record is absent, older than 15 s or names the tab;
\* otherwise the attempt ends there with isLeader = false and the record
\* as it was.  The write of an election is made only by an attempt whose
\* read went that way.
C25_WritesOnlyAsCandidate ==
    [][\A p \in Tabs :
          /\ ( /\ electPc[p] = "jitter"
               /\ electPc'[p] # "jitter"
               /\ tabPhase'[p] = "running" )
             => IF MayClaim(p)
                THEN /\ electPc'[p] = "write"
                     /\ lastElection'[p] = "candidate"
                ELSE /\ electPc'[p] = "idle"
                     /\ lastElection'[p] = "declined"
                     /\ ~isLeader'[p]
                     /\ cloud_sync_leader' = cloud_sync_leader
          /\ (electPc'[p] = "write" /\ electPc[p] # "write")
             => electPc[p] = "jitter"
          /\ (electPc'[p] = "settle" /\ electPc[p] # "settle")
             => /\ electPc[p] = "write"
                /\ lastElection[p] = "candidate"
                /\ cloud_sync_leader' = LeaderInfo(p, now)]_vars

\* C25, its case: a tab's election attempt has read the live record of
\* another tab, of exactly the timeout's age, and ended as a follower.
C25_Witness ==
    \E p \in Tabs : \E q \in Tabs \ {p} :
        /\ lastElection[q] = "declined"
        /\ electPc[q] = "idle"
        /\ ~isLeader[q]
        /\ cloud_sync_leader # NoLeader
        /\ cloud_sync_leader.tabId = p
        /\ (now - cloud_sync_leader.timestamp) = LEADER_TIMEOUT
        /\ lastRecordWrite = cloud_sync_leader.timestamp

\* Tab p runs, believes it leads and is not releasing; the record names it.
HeartbeatRuns(p) ==
    /\ tabPhase[p] = "running"
    /\ isLeader[p]
    /\ leaderCheckInterval[p]
    /\ relPc[p] = "idle"
    /\ cloud_sync_leader # NoLeader
    /\ cloud_sync_leader.tabId = p

\* The record is not older than the lease timeout.
LeaseRenewed == (now - cloud_sync_leader.timestamp) <= LEADER_TIMEOUT

\* No other tab than p leads, is a candidate or is about to write or
\* remove the record.
OthersFollow(p) ==
    \A q \in Tabs \ {p} :
        /\ ~isLeader[q]
        /\ electPc[q] \in {"idle", "jitter"}
        /\ relPc[q] = "idle"

\* C26: as long as the leader's heartbeat keeps the record renewed (the
\* record is never older than the lease timeout), the other tabs stay
\* followers: none of them becomes a candidate, writes the record or sets
\* isLeader, and the record keeps naming the leader.
C26_RenewedLeaseHolds ==
    [][\A p \in Tabs :
          ( /\ HeartbeatRuns(p) /\ LeaseRenewed /\ OthersFollow(p)
            /\ tabPhase'[p] = "running"
            /\ isLeader'[p]
            /\ leaderCheckInterval'[p]
            /\ relPc'[p] = "idle"
            /\ (now' - cloud_sync_leader.timestamp) <= LEADER_TIMEOUT )
          => /\ HeartbeatRuns(p)'
             /\ LeaseRenewed'
             /\ OthersFollow(p)'
             /\ \A q \in Tabs \ {p} :
                    lastElection'[q] # lastElection[q]
                        => lastElection'[q] = "declined"]_vars

\* C26, its case: the leader has renewed its record beyond the first lease
\* and another tab's election attempt has ended with the tab a follower.
C26_Witness ==
    \E p \in Tabs : \E q \in Tabs \ {p} :
        /\ HeartbeatRuns(p) /\ LeaseRenewed /\ OthersFollow(p)
        /\ now > LEADER_TIMEOUT
        /\ cloud_sync_leader.timestamp > 0
        /\ tabPhase[q] = "running"
        /\ lastElection[q] = "declined"
        /\ lastElection[p] = "won"

\* C27: a failed replay re-enqueues the item, with its retry count
\* incremented, as long as the incremented count does not exceed the cap of
\* 3; the item is dropped only once the count exceeds 3.
C27_RequeuedUpToCap ==
    [][ReplayFails
          => LET item == Head(itemsToRetry)
             IN  IF item.retries + 1 <= 3
                 THEN /\ Len(retryQueue') = Len(retryQueue) + 1
                      /\ retryQueue'[Len(retryQueue')].retries
                             = item.retries + 1
                      /\ Equivalent(retryQueue'[Len(retryQueue')],
                                    item.operation, item.storeName, item.id)
                 ELSE retryQueue' = retryQueue]_vars

\* C28: a queued delete item whose replay fails gets its retry count
\* incremented and is re-enqueued unless the cap is reached, the same as a
\* failed upsert item.
C28_FailedDeleteRequeued ==
    [][ReplayDeleteFails
          => LET item == Head(itemsToRetry)
             IN  (item.retries + 1 < MAX_RETRIES_PER_ITEM)
                     => \E i \in 1 .. Len(retryQueue') :
                            /\ Equivalent(retryQueue'[i], item.operation,
                                          item.storeName, item.id)
                            /\ retryQueue'[i].retries = item.retries + 1]_vars

\* The step is a call of performAutoSync that the user did not ask for, or a
\* call of syncOfflineWorkToCloud, that reaches its leadership check.
ReachesLeadershipCheck ==
    /\ currentUser
    /\ isOnline
    /\ \/ PerformAutoSync(FALSE)
       \/ \E selectOk, upsertOk, deleteOk \in BOOLEAN :
             SyncOfflineWorkToCloud(selectOk, upsertOk, deleteOk)

\* C29: when verifyLeadershipForSync returns false in performAutoSync (not
\* user-initiated) or in syncOfflineWorkToCloud, the call is skipped: it
\* returns a skipped result, writes nothing to the remote tables, neither
\* drains nor adds to the retry queue, and leaves isSyncing as it was.
C29_NotLeaderSkips ==
    [][(ReachesLeadershipCheck /\ ~VerifyLeadershipResult(Self)) =>
          /\ lastSync'.skipped
          /\ ~lastSync'.success
          /\ ~lastSync'.wroteRemote
          /\ remoteFolders' = remoteFolders
          /\ remotePrompts' = remotePrompts
          /\ retryQueue' = retryQueue
          /\ itemsToRetry' = itemsToRetry
          /\ draining' = draining
          /\ isSyncing' = isSyncing
          /\ autoSyncPc' = autoSyncPc]_vars

\* A periodic sync was skipped on a tab that does not lead while failed
\* writes wait in the retry queue.
C29_Witness ==
    /\ currentUser
    /\ lastSync.op = "performAutoSync"
    /\ lastSync.skipped
    /\ lastSync.verified = "false"
    /\ ~VerifyLeadershipResult(Self)
    /\ Len(retryQueue) > 0
    /\ ~isSyncing

\* The step is a call of one of the seven operations.
SyncOperationCalled ==
    \/ \E userInitiated \in BOOLEAN : PerformAutoSync(userInitiated)
    \/ \E fetchOk, cleanupOk \in BOOLEAN : PerformInitialSync(fetchOk, cleanupOk)
    \/ SyncOfflineWorkReturns
    \/ \E selectOk, upsertOk, deleteOk \in BOOLEAN :
          SyncOfflineWorkToCloud(selectOk, upsertOk, deleteOk)
    \/ \E op \in LiveSyncOps : LiveSyncReturns(op)
    \/ \E id \in FolderIds, ok \in BOOLEAN :
          AddFolder(id, ok) \/ DeleteFolder(id, ok)
    \/ \E id \in PromptIds, ok \in BOOLEAN :
          AddPrompt(id, ok) \/ DeletePrompt(id, ok)

\* The names under which the seven operations record their calls.
SyncOperationNames ==
    LiveSyncOps \cup
    {"performAutoSync", "performInitialSync", "syncOfflineWorkToCloud"}

\* C30: with currentUser null, performAutoSync, performInitialSync,
\* syncOfflineWorkToCloud, addFolder, addPrompt, deleteFolder and
\* deletePrompt are no-ops: no remote call is made (nothing is uploaded,
\* downloaded or deleted remotely), and the local store, the retry queue and
\* isSyncing stay as they were.
C30_SignedOutNoOp ==
    [][(~currentUser /\ SyncOperationCalled) =>
          /\ lastSync'.op \in SyncOperationNames
          /\ lastSync' = [NoSync EXCEPT !.op = lastSync'.op,
                                        !.skipped = lastSync'.skipped]
          /\ localFolders' = localFolders
          /\ localPrompts' = localPrompts
          /\ remoteFolders' = remoteFolders
          /\ remotePrompts' = remotePrompts
          /\ retryQueue' = retryQueue
          /\ itemsToRetry' = itemsToRetry
          /\ draining' = draining
          /\ isSyncing' = isSyncing
          /\ autoSyncPc' = autoSyncPc
          /\ ~currentUser']_vars

\* Nobody is signed in, the local store holds a folder, failed writes wait
\* in the retry queue, and deleteFolder has just been called.
C30_Witness ==
    /\ ~currentUser
    /\ lastSync.op = "deleteFolder"
    /\ presentIds(localFolders) # {}
    /\ Len(retryQueue) > 1
    /\ ~isSyncing

\* The step is a download or a merge whose remote requests all fail, as they
\* do while the network is unreachable.
SyncWithoutNetwork ==
    \/ \E cleanupOk \in BOOLEAN : PerformInitialSync(FALSE, cleanupOk)
    \/ PerformSmartMerge(FALSE, FALSE)

\* C31: a merge or download attempted while the network is unreachable is
\* deferred: no local record is changed, and offlineWorkPending is true in
\* the sync metadata afterwards.
C31_UnreachableSyncDeferred ==
    [][SyncWithoutNetwork =>
          /\ localFolders' = localFolders
          /\ localPrompts' = localPrompts
          /\ offlineWorkPending']_vars

\* The records that a download or merge has to store, in the state before it.
ToStoreByInitialSync ==
    initialSyncFolders(localFolders, remoteFolders)
        \cup initialSyncPrompts(localPrompts, remotePrompts)

ToStoreBySmartMerge ==
    mergeDownloads(FolderIds, localFolders, remoteFolders)
        \cup mergeDownloads({ id \in PromptIds : ~IsDefaultId(id) },
                            localPrompts, remotePrompts)

\* The record id is stored locally as its remote row after the step.
StoredAfter(id) ==
    IF id \in FolderIds
    THEN localFolders'[id] = cloudToLocal(remoteFolders[id])
    ELSE localPrompts'[id] = cloudToLocal(remotePrompts[id])

\* C32: a local store failure for one record during performInitialSync or
\* performSmartMerge does not abort the sync: the other records are still
\* stored, and the result is a success that reports what was synced (only a
\* success result carries the counts).
C32_LocalFailureDoesNotAbort ==
    [][\A failing \in FolderIds \cup PromptIds :
          /\ PerformInitialSyncPutFails(failing) =>
                 /\ \A id \in ToStoreByInitialSync \ {failing} : StoredAfter(id)
                 /\ lastSync'.success
          /\ PerformSmartMergePutFails(failing) =>
                 /\ \A id \in ToStoreBySmartMerge \ {failing} : StoredAfter(id)
                 /\ lastSync'.success]_vars

\* C33: forceSync always returns.  If the user-initiated performAutoSync has
\* not completed when the timeout timer fires, forceSync returns the failure
\* 'Sync timed out', the sync in flight is not aborted (isSyncing, its
\* position and its drain stay as they are), and it ends only by completing.
C33_ForceSyncReturns ==
    /\ (forceSync.pc = "racing") ~> (forceSync.pc = "returned")
    /\ [][ForceSyncTimeout =>
             /\ autoSyncPc = "drain" /\ isSyncing
             /\ forceSync'.pc = "returned"
             /\ forceSync'.result = "timeout"
             /\ autoSyncPc' = autoSyncPc
             /\ isSyncing' = isSyncing
             /\ retryQueue' = retryQueue
             /\ itemsToRetry' = itemsToRetry
             /\ draining' = draining]_vars
    /\ [][(forceSync.result = "timeout" /\ autoSyncPc = "drain"
                /\ autoSyncPc' # "drain") =>
             /\ autoSyncPc' = "idle"
             /\ ~isSyncing'
             /\ lastSync'.op = "performAutoSyncEnd"
             /\ lastSync'.success]_vars

\* forceSync returned the timeout while its sync was draining two queued
\* writes; the sync has completed since.
C33_Witness ==
    /\ forceSync.pc = "returned"
    /\ forceSync.result = "timeout"
    /\ now >= forceSync.due
    /\ autoSyncPc = "idle"
    /\ ~isSyncing
    /\ lastSync.op = "performAutoSyncEnd"
    /\ lastQueueEvent \in {"replay_ok", "replay_requeued",
                           "replay_error_swallowed"}

C35_SignOutStopsHeartbeat ==
    [][SignOutFinish => ~leaderCheckInterval'[Self]]_vars

\* C36: leadership is never vacant for good while a tab is attached: once
\* the only running tab, having signed out, signs in again, some tab
\* eventually has isLeader = true again (so that a sign-in sync can upload).
C36_LeadershipNotVacantForGood ==
    (currentUser /\ signInPc # "idle") ~> (\E p \in Tabs : isLeader[p])

\* C37: a call of addToRetryQueue with an item equivalent to an entry of the
\* queue removes no item, also when the queue is at its cap: the queue after
\* the call is the queue before it, in contents and order.
C37_EquivalentAddKeepsQueue ==
    [][\A k \in QueueInputs :
          (/\ AddToRetryQueue(k.operation, k.storeName, k.id)
           /\ HasEquivalent(retryQueue, k.operation, k.storeName, k.id))
              => retryQueue' = retryQueue]_vars

\* Both subscription fields are null.
Unsubscribed == \A t \in SubTables : subscription[t] = "none"

\* C38: after unsubscribeFromRealtimeChanges, until
\* subscribeToRealtimeChanges is called again, no reconnect timer is pending
\* and no subscription is created, whatever status callbacks of the closed
\* channels are delivered in between.
C38_UnsubscribedStaysQuiet ==
    [][(Unsubscribed /\ lastSubEvent' # "subscribed") =>
          /\ Unsubscribed'
          /\ reconnectTimers' = {}]_vars

\* processRetryQueue passes its test of the length, copies the queue and
\* clears it.
DrainStarts == retryQueue # <<>> /\ retryQueue' = <<>> /\ draining'

\* C39: isSyncing is true as long as a performAutoSync or a sign-in sync of
\* the tab is in flight, and no processRetryQueue starts its replays while
\* another one of the tab still replays.
C39_SyncFlagCoversSyncs ==
    /\ [](autoSyncPc = "drain" => isSyncing)
    /\ [](signInPc # "idle" => isSyncing)
    /\ [][DrainStarts => ~draining]_vars

\* The upload of a record over a row with the same id is justified: the
\* row is absent or the record's timestamp is strictly greater.
UploadJustified(record, row) ==
    row.present => LocalStamp(record) > RemoteStamp(row)

\* C40: performSmartMerge upserts no local record over a remote row with the
\* same id unless the record's timestamp is strictly greater than the
\* row's, also when its select fails or returns no data.
C40_MergeUploadsOnlyNewer ==
    [][(\E selectOk, upsertOk \in BOOLEAN :
            PerformSmartMerge(selectOk, upsertOk))
       => /\ \A id \in lastSync'.uploadedFolders :
                 UploadJustified(localFolders[id], remoteFolders[id])
          /\ \A id \in lastSync'.uploadedPrompts :
                 UploadJustified(localPrompts[id], remotePrompts[id])]_vars

=============================================================================
